---------------------------- MODULE Spec2Model ----------------------------
(***************************************************************************)
(* Identity and provenance verification of OracleNet.                      *)
(*                                                                         *)
(*   SpecSiwer   the wallet sign-in worker (siwer): /nonce, /verify, /link *)
(*               over the NONCES key-value namespace and the PocketBase    *)
(*               'oracles' collection.  Handlers are async functions: a    *)
(*               handler runs until its next await on shared state, so     *)
(*               each action below is one such stretch of a handler.       *)
(*   SpecGitHub  the PocketBase hook for birth-issue verification:         *)
(*               /api/auth/github/start and /api/auth/github/verify over   *)
(*               the in-memory verificationCodes map.                      *)
(***************************************************************************)
EXTENDS Integers, Sequences, FiniteSets, TLC

VARIABLES
    now,        \* Date.now() / time.Now(), in seconds
    oracles,    \* the PocketBase 'oracles' collection, a sequence of records
    NONCES,     \* the KV namespace: lower-cased address -> stored challenge
    nonceCount, \* how many nonces crypto.randomUUID() has produced
    req,        \* the /verify and /link requests in flight, per slot
    response,   \* the response on its way to the client, if any
    issuedAt,   \* history: the timestamp of each nonce /nonce has returned
    superseded, \* history: nonces a later /nonce overwrote while still stored
    spent,      \* history: <<key, signature>> of every success response
    verificationCodes, \* the hook's in-memory map: repo key -> code and expiry
    codeCount,  \* how many codes generateCode() has produced
    comments,   \* GitHub: the comments posted on the issues
    ghReq,      \* the /api/auth/github/verify requests in flight, per slot
    ghResponse, \* the hook's response on its way to the client, if any
    spentCodes, \* history: <<repo key, code>> of every success response
    whitelistedRepos, \* settings: the value of the record 'whitelisted_repos'
    repoFullName,     \* the repo IsRepoWhitelisted was last asked about
    isWhitelisted,    \* what IsRepoWhitelisted answered
    data,         \* MerkleExplorer: the leaves fetched for the owner
    treeResult,   \* MerkleExplorer: what computeTreeLayers returned
    selectedLeaf, \* MerkleExplorer: the index of the oracle selected
    proof,        \* MerkleExplorer: the proof fetched for the selection
    proofPath,    \* MerkleExplorer: what computeProofPath returned
    fetches,      \* MerkleExplorer: the leaves whose proof request is in flight
    web3,          \* Web3Proof: the props signature, message and signerWallet
    verifyState,   \* Web3Proof: 'idle' | 'verifying' | 'valid' | 'invalid'
    recoveredAddr, \* Web3Proof: the recovered signer, "" for null
    applied,       \* migrations: the oracle-name migrations run, in order
    snapshots      \* history: the collection before each of them

siwerVars == <<NONCES, nonceCount, req, response, issuedAt, superseded, spent>>

githubVars == <<verificationCodes, codeCount, comments, ghReq, ghResponse, spentCodes>>

settingsVars == <<whitelistedRepos, repoFullName, isWhitelisted>>

explorerVars == <<data, treeResult, selectedLeaf, proof, proofPath, fetches>>
web3Vars == <<web3, verifyState, recoveredAddr>>
migrationVars == <<applied, snapshots>>

-----------------------------------------------------------------------------
(* Bounds of the model *)

MaxNonces == 2
MaxClock == 1200
MaxOracles == 3
MaxCodes == 2
MaxComments == 1
MaxPatterns == 2
MaxLeaves == 5

\* How many challenges are issued while /claim requests are followed.
MaxClaimNonces == 1

\* How many proof requests of the explorer are in flight at a time.
MaxFetches == 2

\* How many times the oracle-name migration is run, up or down.
MaxMigrations == 3


-----------------------------------------------------------------------------
(* siwer: addresses, messages, signatures *)

\* "0xAA" and "0xaa" are two spellings of one account; "0xbb" is another.
Addresses == {"0xaa", "0xAA"}

\* An address used as it was spelled.
keepCase(a) == a

toLowerCase(a) == IF a = "0xAA" THEN "0xaa" ELSE a

\* What a /nonce request can carry as its address: a spelling of the
\* account, nothing, or a string that is no address.
NonceInputs == Addresses \cup {"", "not-an-address"}

\* Two accounts that ask to be linked.
LinkAddresses == {"0xaa", "0xbb"}

\* The keys NONCES can be asked for: any string a request can name.
Keys == {toLowerCase(a) : a \in NonceInputs \ {""}} \cup Addresses \cup LinkAddresses

\* The wallets that sign: the account's own key and somebody else's.
Signers == {"0xaa", "0xbb"}

NonceTtl == 300

NoEntry == [nonce |-> 0, timestamp |-> 0, expiration |-> 0]

\* new Date(timestamp).toISOString()
toISOString(t) == <<"ISO", t>>

\* `Sign in to OracleNet\n\nNonce: ${nonce}\nTimestamp: ${iso}`
Message(nonce, timestamp) ==
    <<"Sign in to OracleNet", "Nonce: ", nonce, "Timestamp: ", toISOString(timestamp)>>

OtherText == <<"Some other text">>

\* A signature is the signing key's address and the text signed; a
\* malformed one is not a signature at all.
Sign(key, message) == [wellFormed |-> TRUE, signer |-> key, message |-> message]

MalformedSignature == [wellFormed |-> FALSE, signer |-> "", message |-> <<>>]

NoSignature == [wellFormed |-> FALSE, signer |-> "", message |-> <<"none">>]

\* ECDSA recovery: the signer when the message is the one signed, an
\* unrelated address otherwise.
recoverMessageAddress(message, signature) ==
    IF signature.message = message THEN signature.signer ELSE "0x??"

\* verifyMessage comparing the two addresses as they are spelled.
verifyMessageAsSpelled(address, message, signature) ==
    IF ~signature.wellFormed THEN "throw"
    ELSE IF recoverMessageAddress(message, signature) = address
    THEN "true" ELSE "false"

\* viem's verifyMessage: throws on a malformed signature, otherwise compares
\* the recovered signer with the claimed address, case-insensitively.
verifyMessage(address, message, signature) ==
    IF ~signature.wellFormed THEN "throw"
    ELSE IF toLowerCase(recoverMessageAddress(message, signature)) = toLowerCase(address)
    THEN "true" ELSE "false"

\* The texts a client may have signed: a message some /nonce returned, or
\* anything else.
SignableMessages ==
    {Message(n, issuedAt[n]) : n \in 1..Len(issuedAt)} \cup {OtherText}

Signatures ==
    {Sign(k, m) : k \in Signers, m \in SignableMessages} \cup {MalformedSignature}

\* The nonce a signed message carries (0 for a text that is no sign-in message).
NonceOf(message) == IF Len(message) = 5 THEN message[3] ELSE 0

-----------------------------------------------------------------------------
(* siwer: the NONCES namespace *)

\* KV get that returns an entry whatever its age.
KVGetStale(key) == NONCES[key]

\* KV get: an entry past its expirationTtl reads as null.
KVGet(key) ==
    IF NONCES[key] # NoEntry /\ now < NONCES[key].expiration
    THEN NONCES[key] ELSE NoEntry

KVPut(store, key, nonce, timestamp) ==
    [store EXCEPT ![key] =
        [nonce |-> nonce, timestamp |-> timestamp, expiration |-> now + NonceTtl]]

\* No response: the step answered no request.
NoResponse ==
    [kind |-> "", key |-> "", signature |-> NoSignature, nonceData |-> NoEntry,
     result |-> "", replay |-> FALSE, deleted |-> FALSE]

KVDeleteSkipped(store, key) == store

KVDelete(store, key) == [store EXCEPT ![key] = NoEntry]

-----------------------------------------------------------------------------
(* siwer: POST /nonce *)

Nonce(address) ==
    IF address = ""
    THEN /\ response' = [NoResponse EXCEPT !.kind = "nonce", !.result = "address required"]
         /\ UNCHANGED <<NONCES, nonceCount, issuedAt, superseded>>
         /\ UNCHANGED <<now, oracles, req, spent>>
         /\ UNCHANGED <<githubVars, settingsVars, explorerVars, web3Vars, migrationVars>>
    ELSE
    /\ nonceCount < MaxNonces
    /\ LET key == toLowerCase(address)
           nonce == nonceCount + 1
           timestamp == now
       IN /\ nonceCount' = nonce
          /\ NONCES' = KVPut(NONCES, key, nonce, timestamp)
          /\ issuedAt' = Append(issuedAt, timestamp)
          /\ superseded' = IF KVGet(key) # NoEntry
                           THEN superseded \cup {KVGet(key).nonce}
                           ELSE superseded
    /\ UNCHANGED response
    /\ UNCHANGED <<now, oracles, req, spent>>
    /\ UNCHANGED <<githubVars, settingsVars, explorerVars, web3Vars, migrationVars>>

-----------------------------------------------------------------------------
(* siwer: requests *)

ReqIds == {1, 2}

IdleReq ==
    [pc |-> "idle", kind |-> "", key |-> "", signature |-> NoSignature,
     nonceData |-> NoEntry, oracle |-> 0, created |-> FALSE,
     replay |-> FALSE, deleted |-> FALSE, github |-> "", name |-> <<>>]

\* c.json(...): what a request answers, and what it did on the way.
ResponseOf(q, result) ==
    [kind |-> q.kind, key |-> q.key, signature |-> q.signature,
     nonceData |-> q.nonceData, result |-> result, replay |-> q.replay,
     deleted |-> q.deleted]

\* Request r answers and its slot is free again.
Finish(r, result) ==
    /\ req' = [req EXCEPT ![r] = IdleReq]
    /\ response' = ResponseOf(req[r], result)

\* Slots are anonymous: a new request takes the lowest free one.
LowestFree(r) ==
    /\ req[r].pc = "idle"
    /\ \A q \in ReqIds : q < r => req[q].pc # "idle"

\* /verify and /link up to the signature check: read the stored challenge,
\* rebuild the message from it, verify the signature against it.  The
\* verification reads nothing shared, so it is one step with the read.
CheckNonceAndSignature(r, kind, address, signature) ==
    /\ LowestFree(r)
    /\ LET key == toLowerCase(address)
           nonceData == KVGet(key)
           message == Message(nonceData.nonce, nonceData.timestamp)
           isValid == verifyMessage(address, message, signature)
           started == [IdleReq EXCEPT !.kind = kind, !.key = key,
                          !.signature = signature, !.nonceData = nonceData,
                          !.replay = (<<key, signature>> \in spent)]
           failed(result) == /\ response' = ResponseOf(started, result)
                             /\ UNCHANGED req
       IN IF nonceData = NoEntry THEN failed("No nonce found")
          ELSE IF isValid = "throw" THEN failed("Verification failed")
          ELSE IF isValid = "false" THEN failed("Invalid signature")
          ELSE /\ req' = [req EXCEPT ![r] = [started EXCEPT !.pc = "delete"]]
               /\ UNCHANGED response
    /\ UNCHANGED <<now, oracles, NONCES, nonceCount, issuedAt, superseded, spent>>
    /\ UNCHANGED <<githubVars, settingsVars, explorerVars, web3Vars, migrationVars>>

\* await c.env.NONCES.delete(address.toLowerCase())
DeleteNonce(r) ==
    /\ req[r].pc = "delete"
    /\ NONCES' = KVDelete(NONCES, req[r].key)
    /\ req' = [req EXCEPT ![r].pc = IF req[r].kind = "verify" THEN "find" ELSE "linkFind",
                          ![r].deleted = TRUE]
    /\ UNCHANGED response
    /\ UNCHANGED <<now, oracles, nonceCount, issuedAt, superseded, spent>>
    /\ UNCHANGED <<githubVars, settingsVars, explorerVars, web3Vars, migrationVars>>

-----------------------------------------------------------------------------
(* siwer: the 'oracles' collection *)

NoOracle ==
    [name |-> <<>>, wallet_address |-> "", github_username |-> "",
     github_repo |-> <<>>, approved |-> FALSE, email |-> <<>>, oracle_name |-> <<>>]

OracleNames == {<<"Beta">>, <<"Gamma">>}

\* name || `Oracle-${address.slice(0, 6)}`
OracleNameFor(name, address) ==
    IF name # <<>> THEN name ELSE <<"Oracle-", address>>

\* getFirstListItem(`wallet_address = "..."`): the first match, 0 when none.
FirstByWallet(wallet) ==
    IF \E i \in 1..Len(oracles) : oracles[i].wallet_address = wallet
    THEN CHOOSE i \in 1..Len(oracles) :
            /\ oracles[i].wallet_address = wallet
            /\ \A j \in 1..(i - 1) : oracles[j].wallet_address # wallet
    ELSE 0

\* getFirstListItem(`name = "..."`)
FirstByName(name) ==
    IF \E i \in 1..Len(oracles) : oracles[i].name = name
    THEN CHOOSE i \in 1..Len(oracles) :
            /\ oracles[i].name = name
            /\ \A j \in 1..(i - 1) : oracles[j].name # name
    ELSE 0

-----------------------------------------------------------------------------
(* siwer: POST /verify after the nonce is deleted *)

\* try { getFirstListItem(wallet_address = ...) } catch { create }: any
\* failure of the lookup (up = FALSE) is taken for a miss.
VerifyFind(r, up) ==
    /\ req[r].pc = "find"
    /\ LET i == IF up THEN FirstByWallet(req[r].key) ELSE 0
       IN req' = [req EXCEPT ![r].pc = IF i # 0 THEN "auth" ELSE "create",
                             ![r].oracle = i]
    /\ UNCHANGED response
    /\ UNCHANGED <<now, oracles, NONCES, nonceCount, issuedAt, superseded, spent>>
    /\ UNCHANGED <<githubVars, settingsVars, explorerVars, web3Vars, migrationVars>>

\* The request's address is read here in its own spelling for the first
\* time (the default name); everywhere else it is lower-cased.
VerifyCreate(r, address, name, ok) ==
    /\ req[r].pc = "create"
    /\ toLowerCase(address) = req[r].key
    /\ IF ok
       THEN /\ Len(oracles) < MaxOracles
            /\ oracles' = Append(oracles,
                  [NoOracle EXCEPT !.name = OracleNameFor(name, address),
                                   !.wallet_address = toLowerCase(address),
                                   !.approved = TRUE])
            /\ req' = [req EXCEPT ![r].pc = "auth", ![r].created = TRUE,
                                  ![r].oracle = Len(oracles) + 1]
            /\ UNCHANGED response
       ELSE /\ Finish(r, "Create failed")
            /\ UNCHANGED oracles
    /\ UNCHANGED <<now, NONCES, nonceCount, issuedAt, superseded, spent>>
    /\ UNCHANGED <<githubVars, settingsVars, explorerVars, web3Vars, migrationVars>>

\* authWithPassword, with one update-and-retry; then the success response.
Auth(r, ok) ==
    /\ req[r].pc \in {"auth", "linkAuth"}
    /\ IF ok
       THEN /\ Finish(r, "success")
            /\ spent' = spent \cup {<<req[r].key, req[r].signature>>}
       ELSE /\ Finish(r, "Auth failed")
            /\ UNCHANGED spent
    /\ UNCHANGED <<now, oracles, NONCES, nonceCount, issuedAt, superseded>>
    /\ UNCHANGED <<githubVars, settingsVars, explorerVars, web3Vars, migrationVars>>

-----------------------------------------------------------------------------
(* siwer: POST /link after the nonce is deleted *)

LinkFind(r, oracleName, up) ==
    /\ req[r].pc = "linkFind"
    /\ LET i == IF up THEN FirstByName(oracleName) ELSE 0
           key == req[r].key
       IN IF i = 0 THEN Finish(r, "Oracle not found")
          ELSE IF oracles[i].wallet_address # "" /\ oracles[i].wallet_address # key
          THEN Finish(r, "Oracle already linked to different wallet")
          ELSE /\ req' = [req EXCEPT ![r].pc = "linkUpdate", ![r].oracle = i]
               /\ UNCHANGED response
    /\ UNCHANGED <<now, oracles, NONCES, nonceCount, issuedAt, superseded, spent>>
    /\ UNCHANGED <<githubVars, settingsVars, explorerVars, web3Vars, migrationVars>>

LinkUpdate(r, ok) ==
    /\ req[r].pc = "linkUpdate"
    /\ IF ok
       THEN /\ oracles' = [oracles EXCEPT ![req[r].oracle].wallet_address = req[r].key]
            /\ req' = [req EXCEPT ![r].pc = "linkAuth"]
            /\ UNCHANGED response
       ELSE /\ Finish(r, "Update failed")
            /\ UNCHANGED oracles
    /\ UNCHANGED <<now, NONCES, nonceCount, issuedAt, superseded, spent>>
    /\ UNCHANGED <<githubVars, settingsVars, explorerVars, web3Vars, migrationVars>>

-----------------------------------------------------------------------------
(* GitHub hook: issue URLs and the GitHub the hook reads *)

\* https://github.com/<owner>/<repo>/issues/<n>, by its path segments.
IssueURL(owner, repo, num) == <<"github.com", owner, repo, "issues", num>>

IssueURLs ==
    {IssueURL("alice", "oracle", "1"),
     IssueURL("alice", "oracle", "2"),
     IssueURL("bob", "notes", "1"),
     <<"github.com", "alice", "oracle", "pull", "1">>}

\* The URLs verify is asked with: those of the repository that has issues
\* to start from, and the one that is no issue URL.
VerifyURLs == {url \in IssueURLs : url[2] = "alice"}

Digits == {"1", "2"}

\* The pattern github\.com/([^/]+)/([^/]+)/issues/(\d+).
parseIssueURL(url) ==
    IF Len(url) = 5 /\ url[1] = "github.com" /\ url[4] = "issues" /\ url[5] \in Digits
    THEN [err |-> FALSE, owner |-> url[2], repo |-> url[3], issueNum |-> url[5]]
    ELSE [err |-> TRUE, owner |-> "", repo |-> "", issueNum |-> ""]

\* owner + "/" + repo
RepoKey(owner, repo) == <<owner, "/", repo>>

RepoKeys == {RepoKey("alice", "oracle"), RepoKey("bob", "notes")}

\* The repository alice/oracle: issue #1 is the birth issue its owner
\* opened; issue #2 was opened by somebody else.
Logins == {"alice", "mallory"}

GitHubIssues ==
    [n \in Digits |->
        IF n = "1"
        THEN [Author |-> "Alice", OracleName |-> <<"Beta">>, Labels |-> {"birth-props"}]
        ELSE [Author |-> "mallory", OracleName |-> <<>>, Labels |-> {}]]

\* What fetchIssue decodes for an issue: those of alice/oracle, and issue #1
\* of bob/notes, which carries no label.
IssueInfo(owner, repo, num) ==
    IF owner = "alice" /\ repo = "oracle" THEN GitHubIssues[num]
    ELSE [Author |-> "bob", OracleName |-> <<>>, Labels |-> {}]

\* A label check that every issue passes.
HasAnyLabels(issue) == TRUE

HasBirthPropsLabel(issue) == "birth-props" \in issue.Labels

\* strings.EqualFold on logins
ToLower(login) == IF login = "Alice" THEN "alice" ELSE login

EqualFold(a, b) == ToLower(a) = ToLower(b)

\* A comment body, by its tokens: "verify:" followed by a code, a bare code.
VerifyBody(code) == <<"verify:", code>>

BareBody(code) == <<code>>

\* strings.Contains(body, "verify:" + code)
ContainsVerify(body, code) ==
    \E i \in 1..(Len(body) - 1) : body[i] = "verify:" /\ body[i + 1] = code

-----------------------------------------------------------------------------
(* GitHub hook: the verificationCodes map *)

CodeTtlMinutes == 10
SecondsPerMinute == 60

NoCode == [Code |-> 0, ExpiresAt |-> 0]

\* storeVerificationCode that keeps an entry already stored.
storeVerificationCodeOnce(codes, repoKey, code) ==
    IF codes[repoKey] # NoCode THEN codes
    ELSE [codes EXCEPT ![repoKey] =
            [Code |-> code, ExpiresAt |-> now + CodeTtlMinutes * SecondsPerMinute]]

\* storeVerificationCode
storeVerificationCode(codes, repoKey, code) ==
    [codes EXCEPT ![repoKey] =
        [Code |-> code, ExpiresAt |-> now + CodeTtlMinutes * SecondsPerMinute]]

\* verifyStoredCode that does not look at ExpiresAt.
verifyStoredCodeAnyAge(codes, repoKey, code) ==
    IF codes[repoKey] = NoCode
    THEN [ok |-> FALSE, codes |-> codes]
    ELSE [ok |-> codes[repoKey].Code = code, codes |-> codes]

\* verifyStoredCode that also deletes an entry whose code differs.
verifyStoredCodeDeleting(codes, repoKey, code) ==
    IF codes[repoKey] = NoCode
    THEN [ok |-> FALSE, codes |-> codes]
    ELSE IF now > codes[repoKey].ExpiresAt \/ codes[repoKey].Code # code
    THEN [ok |-> FALSE, codes |-> [codes EXCEPT ![repoKey] = NoCode]]
    ELSE [ok |-> TRUE, codes |-> codes]

\* verifyStoredCode: the answer and the map it leaves.
verifyStoredCode(codes, repoKey, code) ==
    IF codes[repoKey] = NoCode
    THEN [ok |-> FALSE, codes |-> codes]
    ELSE IF now > codes[repoKey].ExpiresAt
    THEN [ok |-> FALSE, codes |-> [codes EXCEPT ![repoKey] = NoCode]]
    ELSE [ok |-> codes[repoKey].Code = code, codes |-> codes]

\* clearVerificationCode that deletes nothing.
clearVerificationCodeSkipped(codes, repoKey) == codes

\* clearVerificationCode
clearVerificationCode(codes, repoKey) == [codes EXCEPT ![repoKey] = NoCode]

-----------------------------------------------------------------------------
(* GitHub hook: responses and requests *)

GhReqIds == {1, 2}

IdleGhReq ==
    [pc |-> "idle", repoKey |-> <<>>, issueNum |-> "", code |-> 0, author |-> "",
     oracleName |-> <<>>, oracle |-> 0, created |-> FALSE, replay |-> FALSE]

NoGhResponse ==
    [kind |-> "", repoKey |-> <<>>, issueNum |-> "", code |-> 0, result |-> "",
     oracle |-> 0, replay |-> FALSE, before |-> NoCode]

GhResponseOf(q, result) ==
    [kind |-> "verify", repoKey |-> q.repoKey, issueNum |-> q.issueNum,
     code |-> q.code, result |-> result, oracle |-> q.oracle, replay |-> q.replay,
     before |-> NoCode]

GhFinish(r, result) ==
    /\ ghReq' = [ghReq EXCEPT ![r] = IdleGhReq]
    /\ ghResponse' = GhResponseOf(ghReq[r], result)

GhLowestFree(r) ==
    /\ ghReq[r].pc = "idle"
    /\ \A q \in GhReqIds : q < r => ghReq[q].pc # "idle"

\* What an http.Get to api.github.com ends in.
FetchOutcomes == {"ok", "error", "status"}

-----------------------------------------------------------------------------
(* GitHub hook: POST /api/auth/github/start *)

Start(url, outcome) ==
    /\ codeCount < MaxCodes
    /\ LET parsed == parseIssueURL(url)
           issue == IssueInfo(parsed.owner, parsed.repo, parsed.issueNum)
           repoKey == RepoKey(parsed.owner, parsed.repo)
           code == codeCount + 1
           answer(result, c) ==
               ghResponse' = [NoGhResponse EXCEPT !.kind = "start", !.repoKey = repoKey,
                                 !.issueNum = parsed.issueNum, !.code = c,
                                 !.result = result]
           refuse(result) ==
               /\ answer(result, 0)
               /\ UNCHANGED <<verificationCodes, codeCount>>
       IN IF parsed.err THEN refuse("invalid GitHub issue URL")
          ELSE IF parsed.issueNum # "1" THEN refuse("Must be Issue #1 (birth issue)")
          ELSE IF outcome # "ok" THEN refuse("Issue not found")
          ELSE IF ~HasBirthPropsLabel(issue)
          THEN refuse("Issue #1 must have 'birth-props' label")
          ELSE /\ codeCount' = code
               /\ verificationCodes' = storeVerificationCode(verificationCodes, repoKey, code)
               /\ answer("success", code)
    /\ UNCHANGED <<now, oracles, siwerVars, settingsVars, explorerVars, web3Vars, migrationVars, comments, ghReq, spentCodes>>

-----------------------------------------------------------------------------
(* GitHub hook: POST /api/auth/github/verify *)

\* parseIssueURL, verifyStoredCode and fetchIssue(owner, repo, issueNum).
\* The issue's author does not change, so reading it is part of this step.
CheckStoredCode(r, url, code, outcome) ==
    /\ GhLowestFree(r)
    /\ LET parsed == parseIssueURL(url)
           repoKey == RepoKey(parsed.owner, parsed.repo)
           checked == verifyStoredCode(verificationCodes, repoKey, code)
           started == [IdleGhReq EXCEPT !.repoKey = repoKey,
                          !.issueNum = parsed.issueNum, !.code = code,
                          !.replay = (<<repoKey, code>> \in spentCodes)]
       IN IF parsed.err
          THEN /\ ghResponse' = GhResponseOf(started, "invalid GitHub issue URL")
               /\ UNCHANGED <<ghReq, verificationCodes>>
          ELSE /\ verificationCodes' = checked.codes
               /\ IF ~checked.ok
                  THEN /\ ghResponse' = [GhResponseOf(started, "Invalid or expired code")
                                             EXCEPT !.before = verificationCodes[repoKey]]
                       /\ UNCHANGED ghReq
                  ELSE IF outcome # "ok"
                  THEN /\ ghResponse' = GhResponseOf(started, "Failed to fetch issue")
                       /\ UNCHANGED ghReq
                  ELSE /\ ghReq' = [ghReq EXCEPT ![r] =
                              [started EXCEPT
                                  !.pc = "comments",
                                  !.author = GitHubIssues[parsed.issueNum].Author,
                                  !.oracleName = GitHubIssues[parsed.issueNum].OracleName]]
                       /\ UNCHANGED ghResponse
    /\ UNCHANGED <<now, oracles, siwerVars, settingsVars, explorerVars, web3Vars, migrationVars, codeCount, comments, spentCodes>>

\* One comment of the list checkCommentsForCode decodes.
MatchesAnyAuthor(c, code, expectedAuthor) == ContainsVerify(c.body, code)

Matches(c, code, expectedAuthor) ==
    EqualFold(c.user, expectedAuthor) /\ ContainsVerify(c.body, code)

\* checkCommentsForCode: a failed request is an error; a response with
\* another status decodes to no comments.
checkCommentsForCode(issueNum, code, expectedAuthor, outcome) ==
    IF outcome = "error" THEN [err |-> TRUE, verified |-> FALSE]
    ELSE [err |-> FALSE,
          verified |-> /\ outcome = "ok"
                       /\ \E c \in comments :
                            c.issue = issueNum /\ Matches(c, code, expectedAuthor)]

CheckComments(r, outcome) ==
    /\ ghReq[r].pc = "comments"
    /\ LET checked == checkCommentsForCode(ghReq[r].issueNum, ghReq[r].code,
                                           ghReq[r].author, outcome)
       IN IF checked.err THEN GhFinish(r, "Failed to check comments")
          ELSE IF ~checked.verified THEN GhFinish(r, "Comment not found")
          ELSE /\ ghReq' = [ghReq EXCEPT ![r].pc = "find"]
               /\ UNCHANGED ghResponse
    /\ UNCHANGED <<now, oracles, siwerVars, settingsVars, explorerVars, web3Vars, migrationVars, verificationCodes, codeCount, comments, spentCodes>>

\* FindRecordsByFilter("github_username = {:u}"), its error dropped.
FirstByGitHub(username) ==
    IF \E i \in 1..Len(oracles) : oracles[i].github_username = username
    THEN CHOOSE i \in 1..Len(oracles) :
            /\ oracles[i].github_username = username
            /\ \A j \in 1..(i - 1) : oracles[j].github_username # username
    ELSE 0

\* findOrCreateOracleByGitHub, the lookup: a record found is set approved
\* and saved, the error of Save dropped (saved = FALSE: it failed).
FindOracle(r, up, saved) ==
    /\ ghReq[r].pc = "find"
    /\ LET i == IF up THEN FirstByGitHub(ghReq[r].author) ELSE 0
       IN IF i # 0
          THEN /\ ghReq' = [ghReq EXCEPT ![r].pc = "token", ![r].oracle = i]
               /\ oracles' = IF saved
                             THEN [oracles EXCEPT ![i].github_repo = ghReq[r].repoKey,
                                                  ![i].approved = TRUE]
                             ELSE oracles
          ELSE /\ ghReq' = [ghReq EXCEPT ![r].pc = "create"]
               /\ UNCHANGED oracles
    /\ UNCHANGED <<now, siwerVars, settingsVars, explorerVars, web3Vars, migrationVars, verificationCodes, codeCount, comments, ghResponse,
                   spentCodes>>

\* A created record left unapproved.
NewGitHubOracleUnapproved(username, repo, oracleName) ==
    [NoOracle EXCEPT
        !.name = IF oracleName = <<>> THEN <<username>> ELSE oracleName,
        !.github_username = username,
        !.github_repo = repo]

\* The record findOrCreateOracleByGitHub creates.
NewGitHubOracle(username, repo, oracleName) ==
    [NoOracle EXCEPT
        !.name = IF oracleName = <<>> THEN <<username>> ELSE oracleName,
        !.github_username = username,
        !.github_repo = repo,
        !.email = <<username, "@github.oracle">>,
        !.approved = TRUE]

\* findOrCreateOracleByGitHub, the creation.  The record's email is
\* <username>@github.oracle and oracles is an auth collection, whose emails
\* are unique: Save fails when the username already has a record.
CreateOracle(r, ok) ==
    /\ ghReq[r].pc = "create"
    /\ IF ok /\ FirstByGitHub(ghReq[r].author) = 0
       THEN /\ Len(oracles) < MaxOracles
            /\ oracles' = Append(oracles,
                  NewGitHubOracle(ghReq[r].author, ghReq[r].repoKey, ghReq[r].oracleName))
            /\ ghReq' = [ghReq EXCEPT ![r].pc = "token", ![r].created = TRUE,
                                      ![r].oracle = Len(oracles) + 1]
            /\ UNCHANGED ghResponse
       ELSE /\ GhFinish(r, "Failed to create oracle")
            /\ UNCHANGED oracles
    /\ UNCHANGED <<now, siwerVars, settingsVars, explorerVars, web3Vars, migrationVars, verificationCodes, codeCount, comments, spentCodes>>

\* clearVerificationCode moved before oracle.NewAuthToken().
ClearThenToken(r, ok) ==
    /\ ghReq[r].pc = "token"
    /\ verificationCodes' = clearVerificationCode(verificationCodes, ghReq[r].repoKey)
    /\ IF ok
       THEN /\ spentCodes' = spentCodes \cup {<<ghReq[r].repoKey, ghReq[r].code>>}
            /\ GhFinish(r, "success")
       ELSE /\ GhFinish(r, "Failed to generate token")
            /\ UNCHANGED spentCodes
    /\ UNCHANGED <<now, oracles, siwerVars, settingsVars, explorerVars, web3Vars, migrationVars, codeCount, comments>>

\* oracle.NewAuthToken(), then clearVerificationCode and the success response.
TokenAndClear(r, ok) ==
    /\ ghReq[r].pc = "token"
    /\ IF ok
       THEN /\ verificationCodes' = clearVerificationCode(verificationCodes, ghReq[r].repoKey)
            /\ spentCodes' = spentCodes \cup {<<ghReq[r].repoKey, ghReq[r].code>>}
            /\ GhFinish(r, "success")
       ELSE /\ GhFinish(r, "Failed to generate token")
            /\ UNCHANGED <<verificationCodes, spentCodes>>
    /\ UNCHANGED <<now, oracles, siwerVars, settingsVars, explorerVars, web3Vars, migrationVars, codeCount, comments>>

\* verificationCodes is a plain map that the handlers' goroutines read and
\* write with no lock.  Accesses that do not overlap are the steps above, in
\* some order; two that overlap are a data race, which the runtime ends with
\* "fatal error: concurrent map read and map write": the process is gone
\* and with it the map and the requests in flight.
RaceCrash ==
    /\ verificationCodes' = [k \in RepoKeys |-> NoCode]
    /\ ghReq' = [r \in GhReqIds |-> IdleGhReq]
    /\ \/ verificationCodes' # verificationCodes
       \/ ghReq' # ghReq
    /\ UNCHANGED <<now, oracles, siwerVars, settingsVars, explorerVars, web3Vars, migrationVars, codeCount, comments, ghResponse, spentCodes>>

-----------------------------------------------------------------------------
(* GitHub: somebody comments on an issue *)

\* The comments written by somebody who was shown the code: the owner's on
\* the birth issue, with "verify:" and without it, and somebody else's, with
\* "verify:", on either issue.
CommentInputs(code) ==
    {[issue |-> "1", user |-> "alice", body |-> VerifyBody(code)],
     [issue |-> "1", user |-> "alice", body |-> BareBody(code)],
     [issue |-> "1", user |-> "mallory", body |-> VerifyBody(code)],
     [issue |-> "2", user |-> "mallory", body |-> VerifyBody(code)]}

PostComment(issueNum, user, body) ==
    /\ Cardinality(comments) < MaxComments
    /\ comments' = comments \cup {[issue |-> issueNum, user |-> user, body |-> body]}
    /\ comments' # comments
    /\ UNCHANGED <<now, oracles, siwerVars, settingsVars, explorerVars, web3Vars, migrationVars, verificationCodes, codeCount, ghReq,
                   ghResponse, spentCodes>>

GhDeliver ==
    /\ ghResponse # NoGhResponse
    /\ ghResponse' = NoGhResponse
    /\ UNCHANGED <<now, oracles, siwerVars, settingsVars, explorerVars, web3Vars, migrationVars, verificationCodes, codeCount, comments,
                   ghReq, spentCodes>>

-----------------------------------------------------------------------------
(* Settings: the allow-list of repositories *)

\* A string is the sequence of its characters.  The seeded value of
\* 'whitelisted_repos' is "Soul-Brews-Studio/*", its owner taken as one
\* character.
SeededWhitelist == <<"Soul-Brews-Studio", "/", "*">>

\* split(s, sep)
RECURSIVE split(_, _)
split(s, sep) ==
    IF \E i \in 1..Len(s) : s[i] = sep
    THEN LET i == CHOOSE j \in 1..Len(s) :
                     s[j] = sep /\ \A k \in 1..(j - 1) : s[k] # sep
         IN <<SubSeq(s, 1, i - 1)>> \o split(SubSeq(s, i + 1, Len(s)), sep)
    ELSE <<s>>

\* trim(s): without its leading and trailing spaces and tabs
trim(s) ==
    LET blank(c) == c \in {" ", "\t"}
        start == CHOOSE i \in 1..(Len(s) + 1) :
                    /\ \A k \in 1..(i - 1) : blank(s[k])
                    /\ i = Len(s) + 1 \/ ~blank(s[i])
        end == CHOOSE j \in (start - 1)..Len(s) :
                    /\ \A k \in (j + 1)..Len(s) : blank(s[k])
                    /\ j = start - 1 \/ ~blank(s[j])
    IN SubSeq(s, start, end)

\* splitAndTrim(s): the trimmed pieces between commas that are not empty
splitAndTrim(s) ==
    LET pieces == split(s, ",")
        keep(p) == trim(p) # <<>>
    IN [i \in 1..Len(SelectSeq(pieces, keep)) |-> trim(SelectSeq(pieces, keep)[i])]

\* matchPattern that also takes the character before the "*" for a wildcard.
matchPatternLoose(repo, pattern) ==
    IF Len(pattern) > 1 /\ pattern[Len(pattern)] = "*"
    THEN LET prefix == SubSeq(pattern, 1, Len(pattern) - 2)
         IN Len(repo) >= Len(prefix) /\ SubSeq(repo, 1, Len(prefix)) = prefix
    ELSE repo = pattern

\* matchPattern(repo, pattern)
matchPattern(repo, pattern) ==
    IF Len(pattern) > 0 /\ pattern[Len(pattern)] = "*"
    THEN LET prefix == SubSeq(pattern, 1, Len(pattern) - 1)
         IN Len(repo) >= Len(prefix) /\ SubSeq(repo, 1, Len(prefix)) = prefix
    ELSE repo = pattern

\* matchesAnyPattern(repo, patterns)
matchesAnyPattern(repo, patterns) ==
    \E i \in 1..Len(patterns) : matchPattern(repo, patterns[i])

\* IsRepoWhitelisted(app, repoFullName)
IsRepoWhitelisted(repo) ==
    IF whitelistedRepos = <<>> THEN FALSE
    ELSE matchesAnyPattern(repo, splitAndTrim(whitelistedRepos))

\* The patterns an administrator puts in the list: all repositories of an
\* owner, one repository, nothing; written with or without blanks around.
AllowPatterns == {<<"o", "/", "*">>, <<"o", "/", "a">>, <<"x", "/", "a">>, <<>>}

ListEntries == [text : AllowPatterns, padded : BOOLEAN]

PatternLists == UNION {[1..n -> ListEntries] : n \in 0..MaxPatterns}

Written(entry) ==
    IF entry.padded THEN <<" ">> \o entry.text \o <<" ">> ELSE entry.text

\* The entries of a list, separated by commas.
RECURSIVE JoinedList(_)
JoinedList(list) ==
    IF Len(list) = 0 THEN <<>>
    ELSE IF Len(list) = 1 THEN Written(list[1])
    ELSE Written(list[1]) \o <<",">> \o JoinedList(Tail(list))

\* The repositories asked about: owners o, x and oo.
RepoNames ==
    {<<"o", "/", "a">>, <<"o", "/", "b">>, <<"x", "/", "a">>, <<"o", "o", "/", "a">>}

\* A caller asks whether a repository is on the allow-list.
AskIsRepoWhitelisted(repo) ==
    /\ repoFullName' = repo
    /\ isWhitelisted' = IsRepoWhitelisted(repo)
    /\ UNCHANGED <<now, oracles, siwerVars, githubVars, whitelistedRepos, explorerVars, web3Vars,
                   migrationVars>>

-----------------------------------------------------------------------------
(* MerkleExplorer: the tree of an owner's oracles *)

\* Arrays are functions on 0..(length - 1), as the page indexes them.
Length(a) == Cardinality(DOMAIN a)

Empty == [i \in {} |-> 0]

\* type LeafData.  Oracle number n has its own bot wallet and birth issue.
LeafData(n) ==
    [bot_wallet |-> <<"0xB", n>>, birth_issue |-> <<"issues/", n>>, issue_number |-> n]

\* String.toLowerCase on a bot wallet.
walletToLowerCase(w) == IF w[1] = "0xB" THEN <<"0xb", w[2]>> ELSE w

\* The oracles an owner can have.
IssueNumbers == 1..MaxLeaves

\* The leaves /api/merkle/owner can answer with: any oracles, in any order.
LeafArrays ==
    UNION {{a \in [0..(n - 1) -> IssueNumbers] :
               \A i, j \in 0..(n - 1) : i # j => a[i] # a[j]} : n \in 0..MaxLeaves}

NoData == [leaves |-> Empty]

MerkleData == {[leaves |-> [i \in DOMAIN a |-> LeafData(a[i])]] : a \in LeafArrays}

\* The tuple without the birth issue.
TupleWithoutBirthIssue(l) == <<walletToLowerCase(l.bot_wallet), <<>>, l.issue_number>>

\* tuples: [address, string, uint256].
Tuple(l) == <<walletToLowerCase(l.bot_wallet), l.birth_issue, l.issue_number>>

\* A hash is the term it was computed from: distinct inputs give distinct
\* hashes.  standardLeafHash: keccak256(keccak256(abi.encode(value))).
leafHash(value) == [value |-> value, kids |-> {}]

\* hashPair: keccak256 of the two hashes, the smaller first.
hashPair(a, b) == [value |-> <<>>, kids |-> {a, b}]

\* Where keccak256 puts a leaf hash in the order of hashes: an order that
\* is not the order of the issue numbers.
Digest(value) == (value[3] * 3) % 7

\* hashedValues.sort(compare by hash): the position a value is sorted to.
SortedPos(values, v) ==
    Cardinality({u \in DOMAIN values : Digest(values[u]) < Digest(values[v])})

RECURSIVE TreeNode(_, _)
\* makeMerkleTree: node i of the flat tree over the sorted leaf hashes.
\* The leaves fill the end of the array backwards; every other node is the
\* hash of its two children 2i + 1 and 2i + 2.
TreeNode(sorted, i) ==
    LET n == Length(sorted)
        size == 2 * n - 1
    IN IF i >= size - n
       THEN sorted[size - 1 - i]
       ELSE hashPair(TreeNode(sorted, 2 * i + 1), TreeNode(sorted, 2 * i + 2))

makeMerkleTree(sorted) == [i \in 0..(2 * Length(sorted) - 2) |-> TreeNode(sorted, i)]

\* StandardMerkleTree.of(values, encoding).dump(): the leaves are sorted by
\* their hash (sortLeaves) before the tree is built.
StandardMerkleTreeOf(values) ==
    LET n == Length(values)
        sorted == [k \in 0..(n - 1) |->
                     leafHash(values[CHOOSE v \in DOMAIN values : SortedPos(values, v) = k])]
    IN [tree |-> makeMerkleTree(sorted),
        values |-> [v \in DOMAIN values |->
                      [value |-> values[v], treeIndex |-> 2 * n - 1 - SortedPos(values, v) - 1]]]

RECURSIVE Widths(_, _)
\* while (remaining > 0) { widths.push(min(w, remaining)); ...; w *= 2 }
Widths(remaining, w) ==
    IF remaining <= 0 THEN <<>>
    ELSE LET layerSize == IF w < remaining THEN w ELSE remaining
         IN <<layerSize>> \o Widths(remaining - layerSize, w * 2)

RECURSIVE SumTo(_, _)
SumTo(widths, k) == IF k = 0 THEN 0 ELSE widths[k] + SumTo(widths, k - 1)

emptyTree == [layers |-> Empty, leafIndexMap |-> Empty, flatTree |-> Empty, valueMap |-> Empty]

\* leaves.findIndex(wallet and issue number equal): -1 when none.
FindIndex(leaves, value) ==
    LET hits == {i \in DOMAIN leaves :
                    /\ walletToLowerCase(leaves[i].bot_wallet) = walletToLowerCase(value[1])
                    /\ leaves[i].issue_number = value[3]}
    IN IF hits = {} THEN -1 ELSE CHOOSE i \in hits : \A j \in hits : i <= j

computeTreeLayers(leaves) ==
    IF Length(leaves) = 0 THEN emptyTree
    ELSE LET tuples == [i \in DOMAIN leaves |-> Tuple(leaves[i])]
             dump == StandardMerkleTreeOf(tuples)
             treeValues == dump.tree
             widths == Widths(Length(treeValues), 1)
             named == {v \in DOMAIN dump.values : FindIndex(leaves, dump.values[v].value) >= 0}
         IN [layers |-> [k \in 0..(Len(widths) - 1) |->
                           [pos \in 0..(widths[k + 1] - 1) |->
                              treeValues[SumTo(widths, k) + pos]]],
             leafIndexMap |-> [h \in {treeValues[dump.values[v].treeIndex] : v \in named} |->
                                 FindIndex(leaves,
                                    dump.values[CHOOSE v \in named :
                                        treeValues[dump.values[v].treeIndex] = h].value)],
             flatTree |-> treeValues,
             valueMap |-> [v \in DOMAIN dump.values |->
                             [treeIndex |-> dump.values[v].treeIndex]]]

\* indexToLayerPos.get(index)
indexToLayerPos(treeLayers, index) ==
    LET layer == CHOOSE k \in DOMAIN treeLayers :
                    \E pos \in DOMAIN treeLayers[k] :
                       pos + Cardinality(UNION {{<<j, q>> : q \in DOMAIN treeLayers[j]} :
                                                   j \in 0..(k - 1)}) = index
        offset == Cardinality(UNION {{<<j, q>> : q \in DOMAIN treeLayers[j]} :
                                        j \in 0..(layer - 1)})
    IN [layer |-> layer, position |-> index - offset]

\* The node numbered by its distance from the root instead of its step.
PathNodeNumberedByLayer(treeLayers, index, role, step) ==
    LET lp == indexToLayerPos(treeLayers, index)
    IN [layer |-> lp.layer, position |-> lp.position, role |-> role, step |-> lp.layer]

PathNode(treeLayers, index, role, step) ==
    LET lp == indexToLayerPos(treeLayers, index)
    IN [layer |-> lp.layer, position |-> lp.position, role |-> role, step |-> step]

\* isLeftChild ? current + 1 : current - 1
siblingIndex(current) == IF current % 2 = 1 THEN current + 1 ELSE current - 1

RECURSIVE Climb(_, _, _, _)
\* while (current > 0) { sibling; parent; current = parentIndex }
Climb(flatTree, treeLayers, current, step) ==
    IF current <= 0 THEN <<>>
    ELSE LET sib == siblingIndex(current)
             hasSib == sib > 0 /\ sib < Length(flatTree)
             parentIndex == (current - 1) \div 2
             parentStep == IF hasSib THEN step + 1 ELSE step
         IN (IF hasSib THEN <<PathNode(treeLayers, sib, "sibling", step)>> ELSE <<>>)
            \o <<PathNode(treeLayers, parentIndex,
                          IF parentIndex = 0 THEN "root" ELSE "computed", parentStep)>>
            \o Climb(flatTree, treeLayers, parentIndex, parentStep + 1)

\* The path from the node the leaf would have were the leaves not sorted.
computeProofPathUnsorted(flatTree, valueMap, leafIndex, treeLayers) ==
    IF leafIndex >= Length(valueMap) \/ Length(treeLayers) = 0 THEN <<>>
    ELSE LET treeIndex == Length(flatTree) - 1 - leafIndex
         IN IF treeIndex = 0
            THEN <<[layer |-> 0, position |-> 0, role |-> "root", step |-> 0]>>
            ELSE <<PathNode(treeLayers, treeIndex, "leaf", 0)>>
                 \o Climb(flatTree, treeLayers, treeIndex, 1)

computeProofPath(flatTree, valueMap, leafIndex, treeLayers) ==
    IF leafIndex >= Length(valueMap) \/ Length(treeLayers) = 0 THEN <<>>
    ELSE LET treeIndex == valueMap[leafIndex].treeIndex
         IN IF treeIndex = 0
            THEN <<[layer |-> 0, position |-> 0, role |-> "root", step |-> 0]>>
            ELSE <<PathNode(treeLayers, treeIndex, "leaf", 0)>>
                 \o Climb(flatTree, treeLayers, treeIndex, 1)

RECURSIVE getProof(_, _)
\* proveMembership: the sibling hashes from the leaf's node up to the root.
getProof(tree, index) ==
    IF index <= 0 THEN <<>>
    ELSE <<tree[siblingIndex(index)]>> \o getProof(tree, (index - 1) \div 2)

RECURSIVE processProof(_, _)
\* Folds the proof elements in order through hashPair.
processProof(hash, path) ==
    IF path = <<>> THEN hash
    ELSE processProof(hashPair(hash, Head(path)), Tail(path))

verifyMembership(leaf, path, root) == processProof(leafHash(Tuple(leaf)), path) = root

NoProof == [root |-> Empty, proof |-> <<>>, leaf |-> Empty, leaf_index |-> -1]

\* What /api/merkle/proof/{wallet}/{issue_number} answers for a leaf.
ProofFor(leaves, idx) ==
    LET dump == StandardMerkleTreeOf([i \in DOMAIN leaves |-> Tuple(leaves[i])])
    IN [root |-> dump.tree[0],
        proof |-> getProof(dump.tree, dump.values[idx].treeIndex),
        leaf |-> leaves[idx],
        leaf_index |-> idx]

\* treeResult = useMemo(() => computeTreeLayers(data.leaves), [data])
RenderTree ==
    /\ treeResult = emptyTree
    /\ Length(data.leaves) > 0
    /\ treeResult' = computeTreeLayers(data.leaves)
    /\ UNCHANGED <<data, selectedLeaf, proof, proofPath, fetches>>
    /\ UNCHANGED <<now, oracles, siwerVars, githubVars, settingsVars, web3Vars, migrationVars>>

\* selectOracle(idx): the selection is reset and the proof asked for.  The
\* request of an earlier selection is not aborted.
selectOracle(idx) ==
    /\ idx \in DOMAIN data.leaves
    /\ Len(fetches) < MaxFetches
    /\ selectedLeaf' = idx
    /\ proof' = NoProof
    /\ proofPath' = <<>>
    /\ fetches' = Append(fetches, idx)
    /\ UNCHANGED <<data, treeResult>>
    /\ UNCHANGED <<now, oracles, siwerVars, githubVars, settingsVars, web3Vars, migrationVars>>

\* The leaves after one more oracle of the owner was born.
GrownLeaves(leaves) ==
    [i \in 0..Length(leaves) |->
        IF i < Length(leaves) THEN leaves[i] ELSE LeafData(MaxLeaves + 1)]

\* What the proof request for a leaf can be answered with: an error, the
\* proof over the leaves the page holds, the proof over the leaves the
\* server holds by then, or that proof with the data of a leaf that is not
\* in the tree.
ProofAnswer(leaves, idx, answer) ==
    IF answer = "error" THEN NoProof
    ELSE IF answer = "proof" THEN ProofFor(leaves, idx)
    ELSE IF answer = "later" THEN ProofFor(GrownLeaves(leaves), idx)
    ELSE [ProofFor(leaves, idx) EXCEPT !.leaf = LeafData(0)]

\* .then(d => { if (!d.error) setProof(d) }).catch(() => {}): the answer
\* to the k-th request in flight arrives.
ProofArrives(k, answer) ==
    /\ k \in 1..Len(fetches)
    /\ proof' = IF answer = "error" THEN proof
                ELSE ProofAnswer(data.leaves, fetches[k], answer)
    /\ fetches' = SubSeq(fetches, 1, k - 1) \o SubSeq(fetches, k + 1, Len(fetches))
    /\ UNCHANGED <<data, treeResult, selectedLeaf, proofPath>>
    /\ UNCHANGED <<now, oracles, siwerVars, githubVars, settingsVars, web3Vars, migrationVars>>

\* useEffect on [proof, flatTree, valueMap, treeLayers]
ProofPathEffect ==
    /\ proofPath' = IF proof # NoProof /\ Length(treeResult.flatTree) > 0
                       /\ Length(treeResult.valueMap) > 0
                    THEN computeProofPath(treeResult.flatTree, treeResult.valueMap,
                                          proof.leaf_index, treeResult.layers)
                    ELSE <<>>
    /\ proofPath' # proofPath
    /\ UNCHANGED <<data, treeResult, selectedLeaf, proof, fetches>>
    /\ UNCHANGED <<now, oracles, siwerVars, githubVars, settingsVars, web3Vars, migrationVars>>

-----------------------------------------------------------------------------
(* siwer: POST /claim *)

\* The proof a gist carries: a message and a signature over it.
ProofOver(signature) == [message |-> signature.message, signature |-> signature]

\* What the gist fetched for a request can be: not fetched, without files,
\* with a file that is no JSON, or anybody's gist with a proof in it.  Gists
\* are public: a proof one account has posted, any account can post again.
GistInputs ==
    {[fetched |-> FALSE, files |-> "none", owner |-> "", proof |-> ProofOver(MalformedSignature)],
     [fetched |-> TRUE, files |-> "none", owner |-> "alice", proof |-> ProofOver(MalformedSignature)],
     [fetched |-> TRUE, files |-> "invalid", owner |-> "alice", proof |-> ProofOver(MalformedSignature)]}
    \cup {[fetched |-> TRUE, files |-> "proof", owner |-> o, proof |-> ProofOver(s)] :
             o \in Logins \cup {""}, s \in Signatures}

\* The issue-comment URL of a request: whether it names a comment and a
\* repository, whether the comment can be fetched, and who wrote it.
ClaimComments ==
    {[hasComment |-> FALSE, hasRepo |-> TRUE, fetched |-> TRUE, author |-> "alice"],
     [hasComment |-> TRUE, hasRepo |-> FALSE, fetched |-> TRUE, author |-> "alice"],
     [hasComment |-> TRUE, hasRepo |-> TRUE, fetched |-> FALSE, author |-> "alice"]}
    \cup {[hasComment |-> TRUE, hasRepo |-> TRUE, fetched |-> TRUE, author |-> a] : a \in Logins}

\* /claim up to the identity store: the gist, the proof in it, the signer
\* recovered from the proof, the gist's owner and the comment's author.
\* Nothing here reads NONCES.
ClaimCheck(r, name, gist, comment, signer) ==
    /\ LowestFree(r)
    /\ LET key == toLowerCase(signer)
           started == [IdleReq EXCEPT !.kind = "claim", !.key = key,
                          !.signature = gist.proof.signature,
                          !.github = gist.owner, !.name = name,
                          !.replay = (<<key, gist.proof.signature>> \in spent)]
           failed(result) ==
               /\ response' = ResponseOf([IdleReq EXCEPT !.kind = "claim"], result)
               /\ UNCHANGED req
       IN IF name = <<>> \/ signer = "" THEN failed("name, gistUrl, issueUrl, and signer required")
          ELSE IF ~gist.fetched THEN failed("Failed to fetch gist")
          ELSE IF gist.files = "none" THEN failed("Gist has no files")
          ELSE IF gist.files = "invalid" THEN failed("Invalid proof JSON in gist")
          ELSE IF ~gist.proof.signature.wellFormed THEN failed("Signature recovery failed")
          ELSE IF toLowerCase(recoverMessageAddress(gist.proof.message, gist.proof.signature))
                     # key
          THEN failed("Signature mismatch")
          ELSE IF gist.owner = "" THEN failed("Could not determine gist owner")
          ELSE IF ~comment.hasComment THEN failed("Invalid issue comment URL format")
          ELSE IF ~comment.hasRepo THEN failed("Could not parse repo from issue URL")
          ELSE IF ~comment.fetched THEN failed("Failed to fetch comment")
          ELSE IF comment.author # gist.owner THEN failed("GitHub user mismatch")
          ELSE /\ req' = [req EXCEPT ![r] = [started EXCEPT !.pc = "claimFind"]]
               /\ UNCHANGED response
    /\ UNCHANGED <<now, oracles, NONCES, nonceCount, issuedAt, superseded, spent>>
    /\ UNCHANGED <<githubVars, settingsVars, explorerVars, web3Vars, migrationVars>>

\* try { getFirstListItem(wallet_address = ...); superuser login; update }
\* catch { create }: a miss, a failed lookup and a failed update all lead
\* to the creation.
ClaimFind(r, up, updated) ==
    /\ req[r].pc = "claimFind"
    /\ LET i == IF up THEN FirstByWallet(req[r].key) ELSE 0
       IN IF i # 0 /\ updated
          THEN /\ oracles' = [oracles EXCEPT ![i].name = req[r].name,
                                             ![i].github_username = req[r].github,
                                             ![i].approved = TRUE]
               /\ req' = [req EXCEPT ![r].pc = "auth", ![r].oracle = i]
          ELSE /\ req' = [req EXCEPT ![r].pc = "claimCreate"]
               /\ UNCHANGED oracles
    /\ UNCHANGED response
    /\ UNCHANGED <<now, NONCES, nonceCount, issuedAt, superseded, spent>>
    /\ UNCHANGED <<githubVars, settingsVars, explorerVars, web3Vars, migrationVars>>

\* `${signer.toLowerCase().slice(2, 10)}@wallet.oraclenet`
walletEmail(key) == <<key, "@wallet.oraclenet">>

\* The creation of the catch branch.  'oracles' is an auth collection, which
\* holds an email address once: a second record with the wallet's email is
\* refused like any other failed creation.
ClaimCreate(r, ok) ==
    /\ req[r].pc = "claimCreate"
    /\ IF ok /\ \A i \in 1..Len(oracles) : oracles[i].email # walletEmail(req[r].key)
       THEN /\ Len(oracles) < MaxOracles
            /\ oracles' = Append(oracles,
                  [NoOracle EXCEPT !.name = req[r].name,
                                   !.email = walletEmail(req[r].key),
                                   !.wallet_address = req[r].key,
                                   !.github_username = req[r].github,
                                   !.approved = TRUE])
            /\ req' = [req EXCEPT ![r].pc = "auth", ![r].created = TRUE,
                                  ![r].oracle = Len(oracles) + 1]
            /\ UNCHANGED response
       ELSE /\ Finish(r, "Create failed")
            /\ UNCHANGED oracles
    /\ UNCHANGED <<now, NONCES, nonceCount, issuedAt, superseded, spent>>
    /\ UNCHANGED <<githubVars, settingsVars, explorerVars, web3Vars, migrationVars>>

-----------------------------------------------------------------------------
(* The clock *)

Tick(d) ==
    /\ now + d <= MaxClock
    /\ now' = now + d
    /\ UNCHANGED <<oracles, siwerVars, settingsVars, explorerVars, web3Vars, migrationVars, githubVars>>

-----------------------------------------------------------------------------
(* Specifications *)

vars == <<now, oracles, siwerVars, githubVars, settingsVars, explorerVars, web3Vars, migrationVars>>

\* The collection already holds two oracles: one the GitHub hook created
\* (no wallet yet) and one that another wallet signed in.
\* A post without a Web3 proof under it.
NoWeb3Proof == [signature |-> NoSignature, message |-> <<>>, signerWallet |-> ""]

InitialOracles ==
    <<[NoOracle EXCEPT !.name = <<"Beta">>, !.github_username = "Alice",
                       !.github_repo = RepoKey("alice", "oracle"), !.approved = FALSE],
      [NoOracle EXCEPT !.name = <<"Gamma">>, !.wallet_address = "0xbb",
                       !.approved = TRUE]>>

InitServices ==
    /\ now = 0
    /\ NONCES = [k \in Keys |-> NoEntry]
    /\ nonceCount = 0
    /\ req = [r \in ReqIds |-> IdleReq]
    /\ response = NoResponse
    /\ issuedAt = <<>>
    /\ superseded = {}
    /\ spent = {}
    /\ verificationCodes = [k \in RepoKeys |-> NoCode]
    /\ codeCount = 0
    /\ comments = {}
    /\ ghReq = [r \in GhReqIds |-> IdleGhReq]
    /\ ghResponse = NoGhResponse
    /\ spentCodes = {}
    /\ repoFullName = <<>>
    /\ isWhitelisted = FALSE
    /\ treeResult = emptyTree
    /\ selectedLeaf = -1
    /\ proof = NoProof
    /\ proofPath = <<>>
    /\ fetches = <<>>
    /\ verifyState = "idle"
    /\ recoveredAddr = ""
    /\ applied = <<>>
    /\ snapshots = <<>>

Init ==
    /\ InitServices
    /\ web3 = NoWeb3Proof
    /\ oracles = InitialOracles
    /\ whitelistedRepos = SeededWhitelist
    /\ data = NoData

\* The response leaves the worker.  A response is observed before anything
\* else happens: sending it touches nothing the handlers share.
Deliver ==
    /\ response # NoResponse
    /\ response' = NoResponse
    /\ UNCHANGED <<now, oracles, NONCES, nonceCount, req, issuedAt, superseded, spent>>
    /\ UNCHANGED <<githubVars, settingsVars, explorerVars, web3Vars, migrationVars>>

\* A step of a handler is taken once the response before it has left.
NextSiwer ==
    \/ Deliver
    \/ \E a \in Addresses : response = NoResponse /\ Nonce(a)
    \/ \E r \in ReqIds, kind \in {"verify", "link"}, a \in Addresses, s \in Signatures :
          response = NoResponse /\ CheckNonceAndSignature(r, kind, a, s)
    \/ \E r \in ReqIds : response = NoResponse /\ DeleteNonce(r)
    \/ \E r \in ReqIds, up \in BOOLEAN : response = NoResponse /\ VerifyFind(r, up)
    \/ \E r \in ReqIds, a \in Addresses, name \in {<<>>, <<"Alpha">>}, ok \in BOOLEAN :
          response = NoResponse /\ VerifyCreate(r, a, name, ok)
    \/ \E r \in ReqIds, n \in OracleNames, up \in BOOLEAN :
          response = NoResponse /\ LinkFind(r, n, up)
    \/ \E r \in ReqIds, ok \in BOOLEAN : response = NoResponse /\ LinkUpdate(r, ok)
    \/ \E r \in ReqIds, ok \in BOOLEAN : response = NoResponse /\ Auth(r, ok)

SpecSiwer == Init /\ [][NextSiwer]_vars

NextGitHub ==
    \/ GhDeliver
    \/ ghResponse = NoGhResponse /\ Tick(CodeTtlMinutes * SecondsPerMinute + 1)
    \/ \E url \in IssueURLs, o \in FetchOutcomes :
          ghResponse = NoGhResponse /\ Start(url, o)
    \/ \E r \in GhReqIds, url \in VerifyURLs, code \in 0..codeCount, o \in FetchOutcomes :
          ghResponse = NoGhResponse /\ CheckStoredCode(r, url, code, o)
    \/ \E r \in GhReqIds, o \in FetchOutcomes :
          ghResponse = NoGhResponse /\ CheckComments(r, o)
    \/ \E r \in GhReqIds, up \in BOOLEAN, saved \in BOOLEAN :
          ghResponse = NoGhResponse /\ FindOracle(r, up, saved)
    \/ \E r \in GhReqIds, ok \in BOOLEAN : ghResponse = NoGhResponse /\ CreateOracle(r, ok)
    \/ \E r \in GhReqIds, ok \in BOOLEAN : ghResponse = NoGhResponse /\ TokenAndClear(r, ok)
    \/ ghResponse = NoGhResponse /\ RaceCrash
    \/ \E c \in CommentInputs(codeCount) :
          ghResponse = NoGhResponse /\ codeCount > 0 /\ PostComment(c.issue, c.user, c.body)

SpecGitHub == Init /\ [][NextGitHub]_vars

-----------------------------------------------------------------------------
(* siwer: the claims *)

\* The requests that have passed the nonce and signature check and are at
\* identity resolution or token issuance.
Resolving(r) ==
    req[r].pc \in {"find", "create", "auth", "linkFind", "linkUpdate", "linkAuth"}

\* C1: a nonce is single-use.  A /verify or /link request that presents, for
\* the same address, a signature that has already led to a success response
\* never passes the check: it is answered 'No nonce found', unless a /nonce
\* issued since has stored a newer challenge, and then the old signature is
\* an invalid signature for it.
C1_NonceSingleUse ==
    /\ \A r \in ReqIds : ~req[r].replay
    /\ response.replay =>
          \/ response.result = "No nonce found"
          \/ /\ response.result = "Invalid signature"
             /\ response.nonceData.nonce > NonceOf(response.signature.message)

C1_ReplayRefused ==
    /\ response.replay
    /\ response.result = "No nonce found"
    /\ NonceOf(response.signature.message) > 0

\* C2: no double spend.  Two requests for the same address never both pass
\* the check on the same stored nonce and reach identity resolution.
C2_NoDoubleSpend ==
    \A r1, r2 \in ReqIds :
        (r1 # r2 /\ Resolving(r1) /\ Resolving(r2) /\ req[r1].key = req[r2].key)
            => req[r1].nonceData.nonce # req[r2].nonceData.nonce

\* C3: a signature over any other text than the stored challenge's message
\* is rejected: a request past the check carries a signature, by the claimed
\* address, over the message of the challenge it read, and a signature over
\* the message of a superseded nonce never yields success.
C3_OnlyStoredMessageAccepted ==
    /\ \A r \in ReqIds : req[r].pc # "idle" =>
          /\ req[r].signature.wellFormed
          /\ toLowerCase(req[r].signature.signer) = req[r].key
          /\ req[r].signature.message =
                Message(req[r].nonceData.nonce, req[r].nonceData.timestamp)
    /\ response.result = "success" =>
          NonceOf(response.signature.message) \notin superseded

\* C8: a failed /verify or /link leaves the stored nonce as it was; only a
\* request that answers success has removed it.
C8_FailureLeavesNonce ==
    (response # NoResponse /\ response.result # "success") => ~response.deleted

-----------------------------------------------------------------------------
(* GitHub hook: the claims *)

\* A verify request has answered in this step.
VerifyAnswers == ghResponse' # ghResponse /\ ghResponse'.kind = "verify"

\* A verify request has moved on in this step without answering.
VerifyMovesOn ==
    /\ ghResponse' = ghResponse
    /\ \E r \in GhReqIds : ghReq'[r] # ghReq[r] /\ ghReq'[r].pc # "idle"

\* The comments on an issue by the issue's author that hold "verify:" and the code.
AuthorComments(issueNum, code) ==
    {c \in comments : /\ c.issue = issueNum
                      /\ EqualFold(c.user, GitHubIssues[issueNum].Author)
                      /\ ContainsVerify(c.body, code)}

\* C4: a verify request succeeds only when the issue it names, whose author
\* and comments were checked, is issue #1 of the repository the code was
\* started for.
C4_VerifyBoundToIssueOne ==
    (ghResponse.kind = "verify" /\ ghResponse.result = "success")
        => ghResponse.issueNum = "1"

\* C5: a verify request gets past the comment check, and answers success,
\* only if some comment on its issue written by the issue's author holds
\* "verify:" and the code of the request.
C5_OnlyAuthorCommentVerifies ==
    /\ \A r \in GhReqIds :
          ghReq[r].pc \in {"find", "create", "token"}
              => AuthorComments(ghReq[r].issueNum, ghReq[r].code) # {}
    /\ (ghResponse.kind = "verify" /\ ghResponse.result = "success")
          => AuthorComments(ghResponse.issueNum, ghResponse.code) # {}

C5_AuthorCommentAccepted ==
    /\ ghResponse.kind = "verify"
    /\ ghResponse.result = "success"
    /\ ghResponse.issueNum = "1"
    /\ \E c \in comments : c.user = "alice" /\ c.body = VerifyBody(ghResponse.code)

\* C6: once a verify request has succeeded with a code, a verify request
\* that arrives later with the same code for the same repository does not
\* pass the stored-code check: it is answered invalid-or-expired, whether
\* or not a start has been issued since.
C6_CodeSingleUse ==
    /\ \A r \in GhReqIds : ~ghReq[r].replay
    /\ (ghResponse.kind = "verify" /\ ghResponse.replay)
          => ghResponse.result = "Invalid or expired code"

C6_SpentCodeRefused ==
    /\ ghResponse.kind = "verify"
    /\ ghResponse.replay
    /\ ghResponse.result = "Invalid or expired code"

\* C7: of two verify requests for the same repository and the same pending
\* code, at most one is past the stored-code check at any time.
C7_AtMostOnePassesCheck ==
    \A r1, r2 \in GhReqIds :
        (r1 # r2 /\ ghReq[r1].pc # "idle" /\ ghReq[r2].pc # "idle"
            /\ ghReq[r1].repoKey = ghReq[r2].repoKey)
        => ghReq[r1].code # ghReq[r2].code

\* C9: a verify request that answers that the oracle could not be created
\* or the token not generated leaves verificationCodes as it was, and the
\* only step of a verify request that removes an unexpired code is the one
\* that answers success, for that repository, with its oracle resolved.
C9_NoConsumedUnresolved ==
    [][/\ (VerifyAnswers /\ ghResponse'.result \in {"Failed to create oracle",
                                                    "Failed to generate token"})
            => verificationCodes' = verificationCodes
       /\ \A k \in RepoKeys :
            ((VerifyAnswers \/ VerifyMovesOn)
                /\ verificationCodes[k] # NoCode
                /\ now <= verificationCodes[k].ExpiresAt
                /\ verificationCodes'[k] # verificationCodes[k])
            => /\ ghResponse'.result = "success"
               /\ ghResponse'.repoKey = k
               /\ ghResponse'.oracle \in 1..Len(oracles')
               /\ EqualFold(oracles'[ghResponse'.oracle].github_username,
                            GitHubIssues[ghResponse'.issueNum].Author)]_vars

C9_FailureLeavesCodePending ==
    /\ ghResponse.kind = "verify"
    /\ ghResponse.result \in {"Failed to create oracle", "Failed to generate token"}
    /\ verificationCodes[ghResponse.repoKey].Code = ghResponse.code
    /\ now <= verificationCodes[ghResponse.repoKey].ExpiresAt

\* C10, as stated: no step of a verify request that does not succeed
\* changes verificationCodes.
C10_FailingVerifyMutatesNothing ==
    [][((VerifyAnswers /\ ghResponse'.result # "success") \/ VerifyMovesOn)
          => verificationCodes' = verificationCodes]_vars

\* C10: a step of a verify request that does not succeed leaves
\* verificationCodes as it was, except that the request answered
\* invalid-or-expired removes the entry of its repository when that entry
\* has expired; an entry that has not expired is never touched.
C10_FailingVerifyOnlyPurgesExpired ==
    [][((VerifyAnswers /\ ghResponse'.result # "success") \/ VerifyMovesOn)
          => \A k \in RepoKeys :
                \/ verificationCodes'[k] = verificationCodes[k]
                \/ /\ VerifyAnswers
                   /\ ghResponse'.result = "Invalid or expired code"
                   /\ ghResponse'.repoKey = k
                   /\ verificationCodes[k] # NoCode
                   /\ now > verificationCodes[k].ExpiresAt
                   /\ verificationCodes'[k] = NoCode]_vars

C10_ExpiredEntryPurged ==
    /\ ghResponse.kind = "verify"
    /\ ghResponse.result = "Invalid or expired code"
    /\ ghResponse.before # NoCode
    /\ now > ghResponse.before.ExpiresAt
    /\ verificationCodes[ghResponse.repoKey] = NoCode

-----------------------------------------------------------------------------
(* siwer: one challenge per address *)

\* C11: Addresses are spellings of one account.  At every step at most one
\* challenge is stored for it, the stored one is the one issued last, and a
\* request gets past the signature check only with a signature over the
\* message issued last: one over an earlier message is rejected.
C11_OneChallengePerAddress ==
    [][/\ Cardinality({k \in Addresses : NONCES'[k] # NoEntry}) <= 1
       /\ \A k \in Addresses : NONCES'[k] # NoEntry => NONCES'[k].nonce = nonceCount'
       /\ \A r \in ReqIds :
            (req[r].pc = "idle" /\ req'[r].pc = "delete")
                => NonceOf(req'[r].signature.message) = nonceCount]_vars

C11_EarlierMessageRejected ==
    /\ response.kind = "verify"
    /\ response.result = "Invalid signature"
    /\ response.signature.wellFormed
    /\ response.signature.signer = "0xaa"
    /\ NonceOf(response.signature.message) = 1
    /\ response.nonceData.nonce = 2
    /\ 1 \in superseded
    /\ Cardinality({k \in Addresses : NONCES[k] # NoEntry}) = 1

-----------------------------------------------------------------------------
(* GitHub hook: supersession and expiry of a code *)

\* A verify request has passed the stored-code check in this step.
PassesCodeCheck(r) == ghReq[r].pc = "idle" /\ ghReq'[r].pc # "idle"

\* C12: a start for a repository replaces the code stored for it.  The
\* stored code is always the one issued last, and a verify request passes
\* the stored-code check only with the code issued last: an earlier code is
\* refused although it has not expired and the author has posted it.
C12_OnlyLatestCodeHonoured ==
    [][/\ \A k \in RepoKeys :
            verificationCodes'[k] # NoCode => verificationCodes'[k].Code = codeCount'
       /\ \A r \in GhReqIds : PassesCodeCheck(r) => ghReq'[r].code = codeCount]_vars

C12_EarlierCodeRefused ==
    /\ ghResponse.kind = "verify"
    /\ ghResponse.result = "Invalid or expired code"
    /\ ghResponse.code = 1
    /\ ghResponse.issueNum = "1"
    /\ ghResponse.before.Code = 2
    /\ now < CodeTtlMinutes * SecondsPerMinute
    /\ AuthorComments("1", 1) # {}

-----------------------------------------------------------------------------
(* siwer: expiry of a nonce *)

\* The worker serving one request at a time while the clock advances.
NextSiwerTtl ==
    \/ Deliver
    \/ response = NoResponse /\ Tick(NonceTtl)
    \/ \E a \in Addresses : response = NoResponse /\ Nonce(a)
    \/ \E kind \in {"verify", "link"}, a \in Addresses, s \in Signatures :
          response = NoResponse /\ CheckNonceAndSignature(1, kind, a, s)
    \/ response = NoResponse /\ DeleteNonce(1)
    \/ \E up \in BOOLEAN : response = NoResponse /\ VerifyFind(1, up)
    \/ \E a \in Addresses, name \in {<<>>, <<"Alpha">>}, ok \in BOOLEAN :
          response = NoResponse /\ VerifyCreate(1, a, name, ok)
    \/ \E n \in OracleNames, up \in BOOLEAN : response = NoResponse /\ LinkFind(1, n, up)
    \/ \E ok \in BOOLEAN : response = NoResponse /\ LinkUpdate(1, ok)
    \/ \E ok \in BOOLEAN : response = NoResponse /\ Auth(1, ok)

SpecSiwerTtl == Init /\ [][NextSiwerTtl]_vars

\* C13: a /verify or /link request passes the nonce check only less than
\* five minutes after the nonce it reads was issued; one that arrives later
\* finds no nonce, whatever its signature.
C13_NonceExpires ==
    [][\A r \in ReqIds :
          (req[r].pc = "idle" /\ req'[r].pc = "delete")
              => now < issuedAt[req'[r].nonceData.nonce] + 5 * SecondsPerMinute]_vars

C13_ExpiredNonceNotFound ==
    /\ response.result = "No nonce found"
    /\ NONCES[response.key] # NoEntry
    /\ now >= NONCES[response.key].timestamp + 5 * SecondsPerMinute
    /\ response.signature = Sign("0xaa", Message(NONCES[response.key].nonce,
                                                 NONCES[response.key].timestamp))

\* C14: a code is stored with the time of its start plus ten minutes, the
\* stored entry is afterwards only removed or replaced by a new start, and a
\* verify request passes the stored-code check only with the stored code and
\* not after that time: evaluated later, it does not succeed with the code.
C14_CodeExpires ==
    [][/\ codeCount' # codeCount
            => \E k \in RepoKeys :
                  verificationCodes'[k] =
                      [Code |-> codeCount', ExpiresAt |-> now + 10 * SecondsPerMinute]
       /\ \A k \in RepoKeys :
            verificationCodes'[k] # verificationCodes[k]
                => verificationCodes'[k] = NoCode \/ codeCount' # codeCount
       /\ \A r \in GhReqIds :
            PassesCodeCheck(r)
                => /\ verificationCodes[ghReq'[r].repoKey].Code = ghReq'[r].code
                   /\ now <= verificationCodes[ghReq'[r].repoKey].ExpiresAt]_vars

C14_ExpiredCodeRefused ==
    /\ ghResponse.kind = "verify"
    /\ ghResponse.result = "Invalid or expired code"
    /\ ghResponse.issueNum = "1"
    /\ ghResponse.before.Code = ghResponse.code
    /\ now > ghResponse.before.ExpiresAt
    /\ AuthorComments("1", ghResponse.code) # {}

-----------------------------------------------------------------------------
(* GitHub hook: start refuses what is not a birth issue *)

\* A start request has answered in this step.
StartAnswers == ghResponse' # ghResponse /\ ghResponse'.kind = "start"

\* C15: start on a URL that does not parse, on an issue whose number is not
\* 1, on an issue that cannot be fetched or on one without the birth-props
\* label answers with an error, and a start that answers with an error has
\* generated no code and left verificationCodes as it was.
C15_StartOnlyForBirthIssue ==
    [][StartAnswers =>
          /\ ghResponse'.issueNum = ""
                => ghResponse'.result = "invalid GitHub issue URL"
          /\ ghResponse'.issueNum \notin {"", "1"}
                => ghResponse'.result = "Must be Issue #1 (birth issue)"
          /\ (/\ ghResponse'.issueNum = "1"
              /\ "birth-props" \notin IssueInfo(ghResponse'.repoKey[1],
                                               ghResponse'.repoKey[3], "1").Labels)
                => ghResponse'.result \in {"Issue not found",
                                           "Issue #1 must have 'birth-props' label"}
          /\ ghResponse'.result # "success"
                => /\ codeCount' = codeCount
                   /\ verificationCodes' = verificationCodes
                   /\ ghResponse'.code = 0]_vars

C15_WrongIssueLeavesChallenge ==
    /\ ghResponse.kind = "start"
    /\ ghResponse.issueNum = "2"
    /\ ghResponse.result = "Must be Issue #1 (birth issue)"
    /\ verificationCodes[ghResponse.repoKey] # NoCode

-----------------------------------------------------------------------------
(* siwer: what /nonce accepts as an address *)

\* /nonce alone, asked for any address, while the clock advances.
NextNonce ==
    \/ Deliver
    \/ response = NoResponse /\ Tick(NonceTtl)
    \/ \E a \in NonceInputs : response = NoResponse /\ Nonce(a)

SpecNonce == Init /\ [][NextNonce]_vars

\* An account identifier: 0x and hexadecimal digits.
WellFormedAddress(a) == a \in {"0xaa", "0xAA", "0xbb"}

\* C16: /nonce stores a challenge only under a well-formed address.
C16_NonceOnlyForWellFormedAddress ==
    \A k \in Keys : NONCES[k] # NoEntry => WellFormedAddress(k)

-----------------------------------------------------------------------------
(* Settings: what the allow-list matches *)

\* The allow-list is any list an administrator has written.
InitAllowList ==
    /\ InitServices
    /\ web3 = NoWeb3Proof
    /\ oracles = InitialOracles
    /\ whitelistedRepos \in {JoinedList(list) : list \in PatternLists}
    /\ data = NoData

NextAllowList == \E repo \in RepoNames : AskIsRepoWhitelisted(repo)

SpecAllowList == InitAllowList /\ [][NextAllowList]_vars

\* The owner of owner/name.
OwnerOf(repo) ==
    SubSeq(repo, 1, (CHOOSE i \in 1..Len(repo) : repo[i] = "/") - 1)

\* "org/*" matches the repositories of owner org; a pattern with no
\* wildcard matches the repository of that very name.
PatternCovers(pattern, repo) ==
    IF Len(pattern) >= 2 /\ SubSeq(pattern, Len(pattern) - 1, Len(pattern)) = <<"/", "*">>
    THEN OwnerOf(repo) = SubSeq(pattern, 1, Len(pattern) - 2)
    ELSE repo = pattern

\* C18: whatever list of patterns the setting was written from, a
\* repository is answered to be whitelisted exactly when one of the
\* patterns of the list that are not empty covers it.
C18_AllowListMatching ==
    repoFullName # <<>> =>
        \A list \in PatternLists :
            whitelistedRepos = JoinedList(list) =>
                isWhitelisted =
                    \E i \in 1..Len(list) :
                        list[i].text # <<>> /\ PatternCovers(list[i].text, repoFullName)

C18_OwnerWildcardMatches ==
    /\ whitelistedRepos = <<"x", "/", "a", ",", " ", "o", "/", "*", " ">>
    /\ repoFullName = <<"o", "/", "b">>
    /\ isWhitelisted

-----------------------------------------------------------------------------
(* siwer: approval of a created identity *)

\* C17: an oracle that /verify has created for an address it did not know
\* is approved only if the repository it belongs to is on the allow-list.
C17_WalletCreatedUnapproved ==
    \A r \in ReqIds :
        (req[r].kind = "verify" /\ req[r].created)
            => (oracles[req[r].oracle].approved
                    => IsRepoWhitelisted(oracles[req[r].oracle].github_repo))

-----------------------------------------------------------------------------
(* GitHub hook: when an identity is resolved *)

\* Request r is at, or past, findOrCreateOracleByGitHub.
Resolved(q) == q.pc \in {"find", "create", "token"}

\* C19: a verify request comes to findOrCreateOracleByGitHub only from the
\* comment check, with a comment of the issue's author holding its code, and
\* to the comment check only with the code stored, unexpired, for its
\* repository.  The oracles collection changes only in a step of such a
\* request: a record created is approved, for the request's repository, with
\* the issue's author as github_username; a record found by that username
\* is set approved for the repository.
C19_ResolvedOnlyAfterChallenge ==
    [][/\ \A r \in GhReqIds :
            PassesCodeCheck(r)
                => /\ ghReq'[r].pc = "comments"
                   /\ verificationCodes[ghReq'[r].repoKey] # NoCode
                   /\ verificationCodes[ghReq'[r].repoKey].Code = ghReq'[r].code
                   /\ now <= verificationCodes[ghReq'[r].repoKey].ExpiresAt
       /\ \A r \in GhReqIds :
            (Resolved(ghReq'[r]) /\ ~Resolved(ghReq[r]))
                => /\ ghReq[r].pc = "comments"
                   /\ AuthorComments(ghReq[r].issueNum, ghReq[r].code) # {}
       /\ oracles' # oracles
            => \E r \in GhReqIds :
                  LET author == GitHubIssues[ghReq[r].issueNum].Author
                  IN /\ ghReq[r].pc \in {"find", "create"}
                     /\ \/ /\ Len(oracles') = Len(oracles) + 1
                           /\ SubSeq(oracles', 1, Len(oracles)) = oracles
                           /\ oracles'[Len(oracles')].approved
                           /\ oracles'[Len(oracles')].github_username = author
                           /\ oracles'[Len(oracles')].github_repo = ghReq[r].repoKey
                        \/ \E i \in 1..Len(oracles) :
                              /\ oracles[i].github_username = author
                              /\ oracles' = [oracles EXCEPT
                                                ![i].github_repo = ghReq[r].repoKey,
                                                ![i].approved = TRUE]]_vars

C19_FoundOracleApproved ==
    /\ ghResponse.kind = "verify"
    /\ ghResponse.result = "success"
    /\ ghResponse.issueNum = "1"
    /\ ghResponse.oracle = 1
    /\ ~InitialOracles[1].approved
    /\ oracles[1].approved
    /\ AuthorComments("1", ghResponse.code) # {}

-----------------------------------------------------------------------------
(* siwer: /link by two wallets *)

\* /nonce and /link, asked by two accounts at the same time.
NextLink ==
    \/ Deliver
    \/ \E a \in LinkAddresses : response = NoResponse /\ Nonce(a)
    \/ \E r \in ReqIds, a \in LinkAddresses, s \in Signatures :
          response = NoResponse /\ CheckNonceAndSignature(r, "link", a, s)
    \/ \E r \in ReqIds : response = NoResponse /\ DeleteNonce(r)
    \/ \E r \in ReqIds, n \in OracleNames, up \in BOOLEAN :
          response = NoResponse /\ LinkFind(r, n, up)
    \/ \E r \in ReqIds, ok \in BOOLEAN : response = NoResponse /\ LinkUpdate(r, ok)
    \/ \E r \in ReqIds, ok \in BOOLEAN : response = NoResponse /\ Auth(r, ok)

SpecLink == Init /\ [][NextLink]_vars

\* C20: no step replaces the wallet_address of an oracle by a different
\* one: it is written only where it was unset or already the same.
C20_LinkNeverOverwrites ==
    [][\A i \in 1..Len(oracles) :
          oracles'[i].wallet_address # oracles[i].wallet_address
              => oracles[i].wallet_address = ""]_vars

\* C21: no two oracle records carry the same wallet address: a wallet that
\* one oracle holds is never bound to a second one by /verify or /link.
C21_WalletBoundOnce ==
    \A i, j \in 1..Len(oracles) :
        (i # j /\ oracles[i].wallet_address # "")
            => oracles[i].wallet_address # oracles[j].wallet_address

-----------------------------------------------------------------------------
(* MerkleExplorer: the page over every set of leaves, each proof request
   answered by a server that holds the same leaves before the next selection *)

InitMerkle ==
    /\ InitServices
    /\ web3 = NoWeb3Proof
    /\ oracles = InitialOracles
    /\ whitelistedRepos = SeededWhitelist
    /\ data \in MerkleData

NextMerkle ==
    \/ RenderTree
    \/ \E idx \in 0..(MaxLeaves - 1) : fetches = <<>> /\ selectOracle(idx)
    \/ \E answer \in {"error", "proof"} : ProofArrives(1, answer)
    \/ ProofPathEffect

SpecMerkle == InitMerkle /\ [][NextMerkle]_vars

\* The hashes of the path's sibling nodes, in the order of the path.
SiblingHashes(path) ==
    LET Pick(i) == IF path[i].role = "sibling"
                   THEN <<treeResult.layers[path[i].layer][path[i].position]>>
                   ELSE <<>>
        Upto[i \in 0..Len(path)] == IF i = 0 THEN <<>> ELSE Upto[i - 1] \o Pick(i)
    IN Upto[Len(path)]

\* C22: for the selected leaf of a built tree, folding the sibling hashes of
\* its proof path through the sorted-pair hash, from the leaf's hash, gives
\* the root of the tree; the proof fetched for the leaf verifies as well.
C22_MerkleRoundTrip ==
    proofPath # <<>> =>
        /\ verifyMembership(data.leaves[proof.leaf_index], SiblingHashes(proofPath),
                            treeResult.flatTree[0])
        /\ verifyMembership(proof.leaf, proof.proof, proof.root)
        /\ proof.root = treeResult.flatTree[0]

\* A proof path of a leaf that has three siblings on its way to the root.
C22_DeepLeafProved ==
    /\ proofPath # <<>>
    /\ Len(SiblingHashes(proofPath)) = 3
    /\ Length(data.leaves) = MaxLeaves

\* The layer above a layer under the odd-sized layer rule: neighbours are
\* paired, and the last node of an odd layer is carried up unchanged.
CarriedUpLayer(layer) ==
    [k \in 1..((Len(layer) + 1) \div 2) |->
        IF 2 * k <= Len(layer) THEN hashPair(layer[2 * k - 1], layer[2 * k])
        ELSE layer[2 * k - 1]]

RECURSIVE CarriedUpRoot(_)
CarriedUpRoot(layer) ==
    IF Len(layer) = 1 THEN layer[1] ELSE CarriedUpRoot(CarriedUpLayer(layer))

\* The leaf hashes of the built tree.
LeafHashes == {treeResult.flatTree[treeResult.valueMap[v].treeIndex] :
                  v \in DOMAIN treeResult.valueMap}

\* C23: the built tree has the shape of the odd-sized layer rule: its root
\* is the root that pairing neighbours and carrying the last node of an odd
\* layer up unchanged gives for its leaves, in some order of the leaves.
C23_OddLayerCarriedUp ==
    treeResult # emptyTree =>
        \E order \in [1..Cardinality(LeafHashes) -> LeafHashes] :
            /\ \A i, j \in DOMAIN order : i # j => order[i] # order[j]
            /\ CarriedUpRoot(order) = treeResult.flatTree[0]

\* With three leaves the root is the one the rule gives for the leaves in
\* the order of their issue numbers.
C23_ThreeLeavesInIssueOrder ==
    (treeResult # emptyTree /\ Length(data.leaves) = 3) =>
        \E order \in [1..3 -> LeafHashes] :
            /\ \A i, j \in 1..3 : i < j => order[i].value[3] < order[j].value[3]
            /\ CarriedUpRoot(order) = treeResult.flatTree[0]

\* The issue number of the k-th leaf of the built tree (k = 0 is the leaf
\* at the end of the flat tree, where the first leaf is put).
IssueOfLeaf(k) ==
    treeResult.flatTree[Length(treeResult.flatTree) - 1 - k].value[3]

\* C24: the leaves of the built tree are in ascending order of their issue
\* numbers, and the tree built from the same leaves in any other order has
\* the same root and the same layers.
C24_LeavesInIssueOrder ==
    treeResult # emptyTree =>
        /\ \A j, k \in DOMAIN data.leaves : j < k => IssueOfLeaf(j) < IssueOfLeaf(k)
        /\ \A other \in MerkleData :
              {other.leaves[i] : i \in DOMAIN other.leaves}
                    = {data.leaves[i] : i \in DOMAIN data.leaves}
                 => computeTreeLayers(other.leaves).layers = treeResult.layers

\* The second half alone: the tree does not depend on the order in which
\* the leaves are given.
C24_SameTreeForAnyOrder ==
    treeResult # emptyTree =>
        \A other \in MerkleData :
            {other.leaves[i] : i \in DOMAIN other.leaves}
                  = {data.leaves[i] : i \in DOMAIN data.leaves}
               => computeTreeLayers(other.leaves).layers = treeResult.layers

\* The hashes a forged proof element can be: any node of the tree and the
\* hash of any leaf, in the tree or not.
ForgedHashes ==
    {treeResult.flatTree[i] : i \in DOMAIN treeResult.flatTree}
        \cup {leafHash(Tuple(LeafData(n))) : n \in 0..(MaxLeaves + 1)}

\* The leaves that differ from a leaf in exactly one field; a wallet
\* differs when it is another address, not another spelling of the same.
TamperedLeaves(leaf) ==
    {[leaf EXCEPT !.bot_wallet = LeafData(n).bot_wallet] : n \in 0..(MaxLeaves + 1)}
        \cup {[leaf EXCEPT !.birth_issue = LeafData(n).birth_issue] : n \in 0..(MaxLeaves + 1)}
        \cup {[leaf EXCEPT !.issue_number = n] : n \in 0..(MaxLeaves + 1)}

\* C25: with the proof fetched for a leaf of a built tree, replacing one
\* proof element by a different hash, or changing one field of the leaf,
\* makes verifyMembership against the root answer false.
C25_TamperDetected ==
    (proof # NoProof /\ treeResult # emptyTree) =>
        /\ verifyMembership(proof.leaf, proof.proof, proof.root)
        /\ \A pos \in 1..Len(proof.proof) : \A h \in ForgedHashes :
              h # proof.proof[pos]
                 => ~verifyMembership(proof.leaf, [proof.proof EXCEPT ![pos] = h], proof.root)
        /\ \A leaf \in TamperedLeaves(proof.leaf) :
              (\/ walletToLowerCase(leaf.bot_wallet) # walletToLowerCase(proof.leaf.bot_wallet)
               \/ leaf.birth_issue # proof.leaf.birth_issue
               \/ leaf.issue_number # proof.leaf.issue_number)
                 => ~verifyMembership(leaf, proof.proof, proof.root)

\* A proof of three elements whose second element, replaced by the hash of
\* a leaf outside the tree, no longer verifies.
C25_ForgedProofRejected ==
    /\ proof # NoProof
    /\ treeResult # emptyTree
    /\ Len(proof.proof) = 3
    /\ ~verifyMembership(proof.leaf,
                         [proof.proof EXCEPT ![2] = leafHash(Tuple(LeafData(0)))], proof.root)
    /\ ~verifyMembership([proof.leaf EXCEPT !.birth_issue = LeafData(0).birth_issue],
                         proof.proof, proof.root)

-----------------------------------------------------------------------------
(* GitHub hook: a verify request and the answers of api.github.com *)

\* What the hook does by itself once it can: the steps that wait for
\* nothing but the hook and its database.
HandlerStep ==
    \/ GhDeliver
    \/ \E up \in BOOLEAN, saved \in BOOLEAN :
          ghResponse = NoGhResponse /\ FindOracle(1, up, saved)
    \/ \E ok \in BOOLEAN : ghResponse = NoGhResponse /\ CreateOracle(1, ok)
    \/ \E ok \in BOOLEAN : ghResponse = NoGhResponse /\ TokenAndClear(1, ok)

\* One verify request at a time.  http.Get returns when api.github.com
\* answers or the connection fails; the call sets no timeout, so nothing
\* else ends the wait.
NextUpstream ==
    \/ HandlerStep
    \/ \E url \in IssueURLs, o \in FetchOutcomes :
          ghResponse = NoGhResponse /\ Start(url, o)
    \/ \E url \in VerifyURLs, code \in 0..codeCount, o \in FetchOutcomes :
          ghResponse = NoGhResponse /\ CheckStoredCode(1, url, code, o)
    \/ \E o \in FetchOutcomes : ghResponse = NoGhResponse /\ CheckComments(1, o)
    \/ \E c \in CommentInputs(codeCount) :
          ghResponse = NoGhResponse /\ codeCount > 0 /\ PostComment(c.issue, c.user, c.body)

\* The hook's own steps are taken whenever they can be; the answers of
\* api.github.com are not promised.
SpecUpstream == Init /\ [][NextUpstream]_vars /\ WF_vars(HandlerStep)

\* C26: a verify request that waits for the comments of the issue is
\* answered in the end, whether or not api.github.com answers.
C26_VerifyAnsweredInTheEnd ==
    (ghReq[1].pc = "comments") ~> (ghReq[1].pc = "idle")

\* The answers that say the request did not pass a validation.
ValidationFailures ==
    {"Issue not found", "Issue #1 must have 'birth-props' label", "Comment not found"}

\* C27: a start or verify step whose GitHub read failed (the request
\* failed, or the status was not a success) never answers with one of the
\* validation failures.
C27_UpstreamFailureDistinct ==
    [][/\ \A url \in IssueURLs :
             Start(url, "error") => ghResponse'.result \notin ValidationFailures
       /\ \A r \in GhReqIds : \A o \in {"error", "status"} :
             CheckComments(r, o) => ghResponse'.result \notin ValidationFailures]_vars

\* The half that holds: a failed request for the comments has its own answer.
C27_CommentsRequestErrorDistinct ==
    [][\A r \in GhReqIds :
          CheckComments(r, "error") => ghResponse'.result \notin ValidationFailures]_vars

-----------------------------------------------------------------------------
(* siwer: completeness of the sign-in protocol *)

\* The message /nonce returned with the challenge now stored for a key.
ReturnedMessage(key) == Message(NONCES[key].nonce, issuedAt[NONCES[key].nonce])

\* C28: a /verify or /link request for an address, in either spelling, that
\* carries the account's signature over the message /nonce returned with the
\* challenge still stored for the address (the latest one, not yet expired)
\* passes the check; the message rebuilt from the stored nonce and timestamp
\* is the message /nonce returned; and once past the check a /verify request
\* succeeds unless the identity store fails it.
C28_ProtocolComplete ==
    [][/\ \A r \in ReqIds, kind \in {"verify", "link"}, a \in Addresses :
             (/\ KVGet(toLowerCase(a)) # NoEntry
              /\ CheckNonceAndSignature(r, kind, a,
                     Sign(toLowerCase(a), ReturnedMessage(toLowerCase(a)))))
                => req'[r].pc = "delete"
       /\ \A k \in Addresses :
             NONCES'[k] # NoEntry
                => Message(NONCES'[k].nonce, NONCES'[k].timestamp)
                      = Message(NONCES'[k].nonce, issuedAt'[NONCES'[k].nonce])
       /\ \A r \in ReqIds :
             (req[r].kind = "verify" /\ req[r].pc \in {"delete", "find", "create", "auth"})
                => /\ req'[r].pc # "idle"
                      \/ response'.result \in {"success", "Create failed", "Auth failed"}
                   /\ Auth(r, TRUE) => response'.result = "success"
                   /\ \A a \in Addresses, n \in {<<>>, <<"Alpha">>} :
                         VerifyCreate(r, a, n, TRUE) => req'[r].pc = "auth"]_vars

\* A /verify signed by the account over the message /nonce returned, some
\* time after the start, has passed the check.
C28_SignedChallengeVerified ==
    \E r \in ReqIds :
        /\ req[r].kind = "verify"
        /\ req[r].pc = "delete"
        /\ req[r].key = "0xaa"
        /\ req[r].signature = Sign("0xaa", ReturnedMessage("0xaa"))
        /\ NONCES["0xaa"].timestamp > 0

-----------------------------------------------------------------------------
(* siwer: /verify and /claim side by side *)

\* The collection after the account's GitHub login has been verified and
\* before its wallet is known.
InitClaim ==
    /\ InitServices
    /\ web3 = NoWeb3Proof
    /\ oracles = <<NewGitHubOracle("alice", RepoKey("alice", "oracle"), <<>>)>>
    /\ whitelistedRepos = SeededWhitelist
    /\ data = NoData

\* What the account's own client sends to /verify: its signature over a
\* text it may have signed.
SignInSignatures == {Sign("0xaa", m) : m \in SignableMessages}

NextClaim ==
    \/ Deliver
    \/ \E a \in Addresses :
          response = NoResponse /\ nonceCount < MaxClaimNonces /\ Nonce(a)
    \/ \E r \in ReqIds, a \in Addresses, s \in SignInSignatures :
          response = NoResponse /\ CheckNonceAndSignature(r, "verify", a, s)
    \/ \E r \in ReqIds : response = NoResponse /\ DeleteNonce(r)
    \/ \E r \in ReqIds, up \in BOOLEAN : response = NoResponse /\ VerifyFind(r, up)
    \/ \E r \in ReqIds, a \in Addresses, name \in {<<>>, <<"Alpha">>}, ok \in BOOLEAN :
          response = NoResponse /\ VerifyCreate(r, a, name, ok)
    \/ \E r \in ReqIds, name \in {<<>>, <<"Alpha">>}, gist \in GistInputs,
          comment \in ClaimComments, signer \in Addresses :
          response = NoResponse /\ ClaimCheck(r, name, gist, comment, signer)
    \/ \E r \in ReqIds, up \in BOOLEAN, updated \in BOOLEAN :
          response = NoResponse /\ ClaimFind(r, up, updated)
    \/ \E r \in ReqIds, ok \in BOOLEAN : response = NoResponse /\ ClaimCreate(r, ok)
    \/ \E r \in ReqIds, ok \in BOOLEAN : response = NoResponse /\ Auth(r, ok)

SpecClaim == InitClaim /\ [][NextClaim]_vars

\* The records of the collection that carry a wallet.
WithWallet(wallet) ==
    {i \in 1..Len(oracles) : oracles[i].wallet_address = wallet}

\* C29: whatever the interleaving of /verify and /claim requests, at most
\* one record carries a wallet address, and a request answers created = true
\* only if no record carried the address when it created one.
C29_OneIdentityPerWallet ==
    [][/\ \A k \in Addresses : Cardinality(WithWallet(toLowerCase(k))') <= 1
       /\ \A r \in ReqIds :
             (req[r].pc \in {"create", "claimCreate"} /\ req'[r].created)
                => FirstByWallet(req[r].key) = 0]_vars

\* C30: a proof (message and signature) that one /claim request has been
\* answered with success for is accepted by no later /claim request.
C30_ClaimProofSingleUse ==
    ~(response.kind = "claim" /\ response.result = "success" /\ response.replay)

\* C31: /claim writes a GitHub login onto a record only if the record has
\* none or has that login already; a record that holds another login keeps
\* its name, its login and its approval.
C31_ClaimKeepsOtherLogin ==
    [][\A i \in 1..Len(oracles) :
          oracles[i].github_username \notin {"", oracles'[i].github_username}
             => oracles'[i] = oracles[i]]_vars

\* C32: no two records carry the same non-empty github_username.
C32_GitHubUsernameUnique ==
    \A i, j \in 1..Len(oracles) :
        (i # j /\ oracles[i].github_username # "")
            => oracles[i].github_username # oracles[j].github_username

-----------------------------------------------------------------------------
(* MerkleExplorer: the claims about the rendered tree *)

\* The path the page computes for leaf idx of the rendered tree.
PathOf(idx) ==
    computeProofPath(treeResult.flatTree, treeResult.valueMap, idx, treeResult.layers)

\* C33: for every leaf of a rendered tree of two leaves or more, the path
\* starts at the leaf, ends at the one root node (layer 0, position 0), is
\* numbered 0, 1, 2, ..., and holds one sibling for each element of the
\* leaf's proof and one computed node or the root above each sibling; for an
\* index past the leaves the path is empty.
C33_ProofPathWellFormed ==
    Length(treeResult.valueMap) >= 2 =>
        /\ PathOf(Length(treeResult.valueMap)) = <<>>
        /\ \A idx \in DOMAIN treeResult.valueMap :
              LET path == PathOf(idx)
                  siblings == {k \in 1..Len(path) : path[k].role = "sibling"}
              IN /\ Len(path) >= 2
                 /\ path[1].role = "leaf"
                 /\ path[Len(path)] = [layer |-> 0, position |-> 0, role |-> "root",
                                       step |-> Len(path) - 1]
                 /\ \A k \in 1..Len(path) : path[k].step = k - 1
                 /\ \A k \in 1..Len(path) : path[k].role = "root" => k = Len(path)
                 /\ Cardinality(siblings)
                       = Len(getProof(treeResult.flatTree, treeResult.valueMap[idx].treeIndex))
                 /\ Len(path) = 2 * Cardinality(siblings) + 1
                 /\ \A k \in siblings : path[k + 1].role \in {"computed", "root"}

\* The path of a leaf three levels below the root is on the page.
C33_DeepPathShown ==
    /\ Len(proofPath) = 7
    /\ proofPath = PathOf(selectedLeaf)
    /\ proofPath[1].role = "leaf"

\* The hashes of layer k of the rendered tree.
LayerHashes(k) == {treeResult.layers[k][pos] : pos \in DOMAIN treeResult.layers[k]}

\* C34: the layers of a rendered tree, one after the other, are the flat
\* tree; layer 0 is the root alone; the last layer holds the leaf hashes, all
\* of them and nothing else; no earlier layer holds a leaf.
C34_LastLayerIsTheLeaves ==
    treeResult # emptyTree =>
        LET layers == treeResult.layers
            last == Length(layers) - 1
        IN /\ \A k \in DOMAIN layers : \A pos \in DOMAIN layers[k] :
                 layers[k][pos] = treeResult.flatTree[SumTo(Widths(Length(treeResult.flatTree), 1), k) + pos]
           /\ SumTo(Widths(Length(treeResult.flatTree), 1), Length(layers)) = Length(treeResult.flatTree)
           /\ Length(layers[0]) = 1 /\ layers[0][0] = treeResult.flatTree[0]
           /\ LayerHashes(last) = LeafHashes
           /\ Length(layers[last]) = Length(treeResult.valueMap)
           /\ \A k \in 0..(last - 1) : Length(treeResult.valueMap) > 1
                                          => LayerHashes(k) \cap LeafHashes = {}

-----------------------------------------------------------------------------
(* MerkleExplorer: selections and proof answers in any order *)

\* The owner's leaves as /api/merkle/owner lists them, oldest first.
InitExplorer ==
    /\ InitServices
    /\ web3 = NoWeb3Proof
    /\ oracles = InitialOracles
    /\ whitelistedRepos = SeededWhitelist
    /\ data \in {d \in MerkleData :
                   \A i, j \in DOMAIN d.leaves :
                      i < j => d.leaves[i].issue_number < d.leaves[j].issue_number}

NextExplorer ==
    \/ RenderTree
    \/ \E idx \in 0..(MaxLeaves - 1) : selectOracle(idx)
    \/ \E k \in 1..MaxFetches, answer \in {"error", "proof", "later", "foreign"} :
          ProofArrives(k, answer)
    \/ ProofPathEffect

SpecExplorer == InitExplorer /\ [][NextExplorer]_vars

\* C35: whenever a proof is stored and no proof request is in flight, the
\* proof is the one of the selected leaf.
C35_ProofOfTheSelectedLeaf ==
    (proof # NoProof /\ fetches = <<>>) => proof.leaf_index = selectedLeaf

\* {proof && selectedLeaf !== null && (...)}: the checklist with 'Root
\* Verified' and the badge '... is a verified member of this family tree'.
BadgeShown == proof # NoProof /\ selectedLeaf # -1

\* data.merkle_root, the root the page displays: the root over the leaves
\* that came with it.
merkle_root == StandardMerkleTreeOf([i \in DOMAIN data.leaves |-> Tuple(data.leaves[i])]).tree[0]

\* C36: the badge is shown only if the fetched proof, folded from the hash
\* of the fetched leaf, gives the displayed root.
C36_BadgeOnlyIfProofVerifies ==
    BadgeShown => verifyMembership(proof.leaf, proof.proof, merkle_root)

-----------------------------------------------------------------------------
(* Web3Proof: the 'Verify Proof' button under a signed post *)

\* What a post can carry as its signed payload; <<>> is a post without one.
Web3Messages == {<<>>, OtherText, <<"Signed post">>, <<"Signed comment">>}

\* The props of the component: any signature over any payload, next to any
\* payload and any author's wallet in either spelling.
Web3Props ==
    {[signature |-> sig, message |-> m, signerWallet |-> w] :
        sig \in {Sign(k, t) : k \in Signers, t \in Web3Messages \ {<<>>}}
                   \cup {MalformedSignature},
        m \in Web3Messages,
        w \in Addresses \cup Signers}

\* The comparison of the two addresses as they are spelled.
signerMatchesAsSpelled(recovered, signerWallet) == recovered = signerWallet

\* recovered.toLowerCase() === signerWallet.toLowerCase()
signerMatches(recovered, signerWallet) ==
    toLowerCase(recovered) = toLowerCase(signerWallet)

\* handleVerify up to the await: the button is there in 'idle' only, and
\* without a message the click does nothing.
handleVerify ==
    /\ verifyState = "idle"
    /\ verifyState' = IF web3.message = <<>> THEN "idle" ELSE "verifying"
    /\ UNCHANGED <<web3, recoveredAddr>>
    /\ UNCHANGED <<now, oracles, siwerVars, githubVars, settingsVars, explorerVars, migrationVars>>

\* handleVerify after the await: recoverMessageAddress has answered or has
\* thrown.
RecoverSettles ==
    /\ verifyState = "verifying"
    /\ IF web3.signature.wellFormed
       THEN LET recovered == recoverMessageAddress(web3.message, web3.signature)
            IN /\ recoveredAddr' = recovered
               /\ verifyState' = IF signerMatches(recovered, web3.signerWallet)
                                 THEN "valid" ELSE "invalid"
       ELSE /\ verifyState' = "invalid"
            /\ recoveredAddr' = ""
    /\ UNCHANGED web3
    /\ UNCHANGED <<now, oracles, siwerVars, githubVars, settingsVars, explorerVars, migrationVars>>

InitWeb3 ==
    /\ InitServices
    /\ oracles = InitialOracles
    /\ whitelistedRepos = SeededWhitelist
    /\ data = NoData
    /\ web3 \in Web3Props

NextWeb3 ==
    \/ handleVerify
    \/ RecoverSettles

SpecWeb3 == InitWeb3 /\ [][NextWeb3]_vars

\* The signer of the post's signature over the post's payload is the
\* post's author, letter case aside.
SignedByAuthor ==
    /\ web3.signature.wellFormed
    /\ web3.signature.message = web3.message
    /\ toLowerCase(web3.signature.signer) = toLowerCase(web3.signerWallet)

\* C37: a click in 'idle' leads to 'verifying' when there is a message and
\* changes nothing when there is none; 'verifying' is left for 'valid' when
\* the signer recovered from message and signature is signerWallet, letter
\* case aside, and for 'invalid' otherwise, with no recovered address when
\* the recovery threw; 'valid' and 'invalid' are never left.
C37_VerifyStateMachine ==
    [][/\ verifyState = "idle"
          => verifyState' = IF web3.message = <<>> THEN "idle" ELSE "verifying"
       /\ verifyState = "verifying"
          => /\ verifyState' = IF SignedByAuthor THEN "valid" ELSE "invalid"
             /\ ~web3.signature.wellFormed => recoveredAddr' = ""
       /\ verifyState \in {"valid", "invalid"} => verifyState' = verifyState
       /\ verifyState' = "valid" => SignedByAuthor /\ web3.message # <<>>]_vars

\* The signature of an author whose wallet is spelled in upper case has
\* been found valid.
C37_UpperCaseAuthorValid ==
    /\ verifyState = "valid"
    /\ web3.signerWallet = "0xAA"
    /\ recoveredAddr = "0xaa"

-----------------------------------------------------------------------------
(* migrations: name -> oracle_name *)

\* The up migration migrating every record that has a github_username.
upWithoutGuard(records) ==
    [i \in DOMAIN records |->
        IF records[i].github_username # ""
        THEN [records[i] EXCEPT !.oracle_name = records[i].name,
                                !.name = <<records[i].github_username>>]
        ELSE records[i]]

\* The up migration over the records of the collection: a record with a
\* github_username and an empty oracle_name gets its name as oracle_name
\* and its github_username as name.
up(records) ==
    [i \in DOMAIN records |->
        IF records[i].github_username # "" /\ records[i].oracle_name = <<>>
        THEN [records[i] EXCEPT !.oracle_name = records[i].name,
                                !.name = <<records[i].github_username>>]
        ELSE records[i]]

\* The down migration that leaves the oracle_name in place.
downKeepingOracleName(records) ==
    [i \in DOMAIN records |->
        IF records[i].oracle_name # <<>>
        THEN [records[i] EXCEPT !.name = records[i].oracle_name]
        ELSE records[i]]

\* The down migration: a record with an oracle_name gets it as name and
\* loses it as oracle_name.
down(records) ==
    [i \in DOMAIN records |->
        IF records[i].oracle_name # <<>>
        THEN [records[i] EXCEPT !.name = records[i].oracle_name,
                                !.oracle_name = <<>>]
        ELSE records[i]]

\* The up migration is run; when FindAllRecords fails nothing is changed.
MigrateUp(found) ==
    /\ Len(applied) < MaxMigrations
    /\ IF found
       THEN /\ oracles' = up(oracles)
            /\ applied' = Append(applied, "up")
            /\ snapshots' = Append(snapshots, oracles)
       ELSE UNCHANGED <<oracles, applied, snapshots>>
    /\ UNCHANGED <<now, siwerVars, githubVars, settingsVars, explorerVars, web3Vars>>

\* The down migration is run.
MigrateDown(found) ==
    /\ Len(applied) < MaxMigrations
    /\ IF found
       THEN /\ oracles' = down(oracles)
            /\ applied' = Append(applied, "down")
            /\ snapshots' = Append(snapshots, oracles)
       ELSE UNCHANGED <<oracles, applied, snapshots>>
    /\ UNCHANGED <<now, siwerVars, githubVars, settingsVars, explorerVars, web3Vars>>

\* The names the handlers give: never an empty one.
MigrationNames == {<<"Shrimp">>, <<"Krill">>}

\* The records the collection can hold when a migration is run: those the
\* handlers write, with a name, no oracle_name and with or without a
\* github_username, and those an earlier run of the up migration has left.
MigratedRecords ==
    {[NoOracle EXCEPT !.name = n, !.github_username = g] :
        n \in MigrationNames, g \in {"", "alice"}}
    \cup {[NoOracle EXCEPT !.name = <<"alice">>, !.oracle_name = o,
                           !.github_username = "alice"] : o \in MigrationNames}

InitMigration ==
    /\ InitServices
    /\ web3 = NoWeb3Proof
    /\ oracles \in UNION {[1..n -> MigratedRecords] : n \in 0..MaxOracles}
    /\ whitelistedRepos = SeededWhitelist
    /\ data = NoData

NextMigration ==
    \/ \E found \in BOOLEAN : MigrateUp(found)
    \/ \E found \in BOOLEAN : MigrateDown(found)

SpecMigration == InitMigration /\ [][NextMigration]_vars

\* The collection after the k-th migration run.
AfterMigration(k) == IF k < Len(applied) THEN snapshots[k + 1] ELSE oracles

\* The names of the records of a collection.
NamesOf(records) ==
    [i \in DOMAIN records |-> <<records[i].name, records[i].oracle_name>>]

=============================================================================
